---- MODULE Spec2Model ----
(***************************************************************************)
(* A model of the pybaseball MCP server: the Validator, the ten tool       *)
(* handlers (player, stats and plotting tools), the chart artifact         *)
(* creator and the chart response interceptor of server.py.                *)
(*                                                                         *)
(* Text.  A Python str is modelled as a sequence of chunks.  A chunk is a  *)
(* TLA+ string holding either ONE character that some code path inspects   *)
(* (white space, quotes, backslash, colon, percent, dash, digits, ...) or  *)
(* a run of characters that no code path looks into (a word, a fixed       *)
(* phrase of a message, a stretch of markup).  Len(chunk) is the number of *)
(* characters of the chunk.  Characters outside ASCII are written by their *)
(* code point ("U+274C" is the cross mark), and count as one character.    *)
(*                                                                         *)
(* Python values carry their type: [t |-> "int", v |-> 5].                 *)
(* A call's outcome is Ok(value) or Raise(exception type, message).        *)
(***************************************************************************)
EXTENDS Integers, Sequences, FiniteSets, TLC

VARIABLES
    current_year,   \* datetime.now().year, read by validate_season
    op,             \* the operation in progress or last completed
    args,           \* its arguments
    pc,             \* "idle", "await" (in a call of the external source), "render", "done", "processed"
    loc,            \* the handler's local variables while it waits
    ext,            \* the external calls of this invocation, in order, with their outcomes
    ret,            \* what the operation returned or raised
    errlog,         \* number of logger.error calls of this invocation
    caught,         \* the exception an except clause of this invocation caught, or NoExc
    made,           \* the ChartData and the Artifact this invocation built, or NoChart
    processed,      \* what process_chart_response made of the handler's response
    issued,         \* the ids of the artifacts the invocations that are over have returned
    lifespan_context, \* the AppContext of app_lifespan: validator, data_processor, cache
    lifespan,       \* "running", "ended" (the server body returned) or "failed" (it raised)
    earlier         \* the call of create_chart_artifact before a second one on the same ChartData

vars == <<current_year, op, args, pc, loc, ext, ret, errlog, caught, made, processed, issued,
          lifespan_context, lifespan, earlier>>

-----------------------------------------------------------------------------
(* Bounds of the model *)

\* how many rows a table of the external source has at most
MaxRows == 3
\* how many years the clock may advance
MaxYearsAhead == 1
\* seasons are tried this far on both sides of each limit of validate_season
SeasonMargin == 2
\* the year the clock starts in
FirstYear == 2024
\* names are tried up to this many chunks
MaxNameChunks == 3

-----------------------------------------------------------------------------
(* Python values and outcomes *)

PyNone == [t |-> "NoneType"]
PyInt(n) == [t |-> "int", v |-> n]
PyBool(b) == [t |-> "bool", v |-> b]
\* a float with one decimal digit, held in tenths: PyFloat(505) is 50.5
PyFloat(tenths) == [t |-> "float", v |-> tenths]
PyStr(s) == [t |-> "str", v |-> s]
PyList(l) == [t |-> "list", v |-> l]

Ok(v) == [ok |-> TRUE, v |-> v]
Raise(exc, msg) == [ok |-> FALSE, exc |-> exc, msg |-> msg]

\* Python truth value (bool(x))
Truthy(x) ==
    CASE x.t = "NoneType" -> FALSE
      [] x.t = "int" -> x.v # 0
      [] x.t = "float" -> x.v # 0
      [] x.t = "bool" -> x.v
      [] x.t = "str" -> x.v # <<>>
      [] x.t = "list" -> x.v # <<>>

-----------------------------------------------------------------------------
(* Text *)

WhiteSpace == {" ", "\t", "\n"}
Digits == {"0", "1", "2", "3", "4", "5", "6", "7", "8", "9"}

DigitOf(n) ==
    CASE n = 0 -> "0" [] n = 1 -> "1" [] n = 2 -> "2" [] n = 3 -> "3" [] n = 4 -> "4"
      [] n = 5 -> "5" [] n = 6 -> "6" [] n = 7 -> "7" [] n = 8 -> "8" [] n = 9 -> "9"

DigitVal(c) ==
    CASE c = "0" -> 0 [] c = "1" -> 1 [] c = "2" -> 2 [] c = "3" -> 3 [] c = "4" -> 4
      [] c = "5" -> 5 [] c = "6" -> 6 [] c = "7" -> 7 [] c = "8" -> 8 [] c = "9" -> 9

RECURSIVE NatToStr(_)
NatToStr(n) == IF n < 10 THEN <<DigitOf(n)>> ELSE NatToStr(n \div 10) \o <<DigitOf(n % 10)>>

\* str(n) of an int
IntToStr(n) == IF n < 0 THEN <<"-">> \o NatToStr(-n) ELSE NatToStr(n)

\* str(x) of a float held in tenths: 500 is "50.0"
FloatToStr(tenths) ==
    LET a == IF tenths < 0 THEN -tenths ELSE tenths
    IN  (IF tenths < 0 THEN <<"-">> ELSE <<>>)
        \o NatToStr(a \div 10) \o <<".", DigitOf(a % 10)>>

\* n zero-padded to w digits (strftime's %Y, %m, %d)
RECURSIVE ZeroPad(_, _)
ZeroPad(s, w) == IF Len(s) >= w THEN s ELSE ZeroPad(<<"0">> \o s, w)

RECURSIVE StrLen(_)
\* len(s): the number of characters
StrLen(s) == IF s = <<>> THEN 0 ELSE Len(Head(s)) + StrLen(Tail(s))

RECURSIVE LStrip(_)
LStrip(s) == IF s # <<>> /\ Head(s) \in WhiteSpace THEN LStrip(Tail(s)) ELSE s

RECURSIVE RStrip(_)
RStrip(s) ==
    IF s # <<>> /\ s[Len(s)] \in WhiteSpace THEN RStrip(SubSeq(s, 1, Len(s) - 1)) ELSE s

\* str.strip()
Strip(s) == RStrip(LStrip(s))

StartsWith(s, p) == Len(s) >= Len(p) /\ SubSeq(s, 1, Len(p)) = p
EndsWith(s, p) == Len(s) >= Len(p) /\ SubSeq(s, Len(s) - Len(p) + 1, Len(s)) = p

\* sub in s
Contains(s, sub) ==
    \E i \in 1..(Len(s) - Len(sub) + 1) : SubSeq(s, i, i + Len(sub) - 1) = sub

\* number of places where sub occurs in s
CountOf(s, sub) ==
    Cardinality({i \in 1..(Len(s) - Len(sub) + 1) : SubSeq(s, i, i + Len(sub) - 1) = sub})

RECURSIVE Replace(_, _, _)
\* s.replace(old, new), old not empty: every occurrence, scanning from the left
Replace(s, old, new) ==
    LET places == {i \in 1..(Len(s) - Len(old) + 1) : SubSeq(s, i, i + Len(old) - 1) = old}
        first == CHOOSE i \in places : \A j \in places : i <= j
    IN  IF places = {} THEN s
        ELSE SubSeq(s, 1, first - 1) \o new
             \o Replace(SubSeq(s, first + Len(old), Len(s)), old, new)

RECURSIVE Repeat(_, _)
Repeat(c, n) == IF n = 0 THEN <<>> ELSE <<c>> \o Repeat(c, n - 1)

RECURSIVE Concat(_)
\* "".join(parts)
Concat(parts) ==
    IF parts = <<>> THEN <<>>
    ELSE IF Len(parts) = 1 THEN parts[1]
    ELSE Concat(SubSeq(parts, 1, Len(parts) \div 2))
         \o Concat(SubSeq(parts, (Len(parts) \div 2) + 1, Len(parts)))

\* sep.join(parts)
JoinWith(sep, parts) ==
    IF parts = <<>> THEN <<>>
    ELSE Concat([i \in 1..(2 * Len(parts) - 1) |->
                   IF i % 2 = 1 THEN parts[(i + 1) \div 2] ELSE sep])

RECURSIVE SplitOn(_, _)
\* s.split(c) for a one-character separator c: always at least one part
SplitOn(s, c) ==
    IF \A i \in 1..Len(s) : s[i] # c THEN <<s>>
    ELSE LET i == CHOOSE k \in 1..Len(s) : s[k] = c /\ \A j \in 1..(k - 1) : s[j] # c
         IN  <<SubSeq(s, 1, i - 1)>> \o SplitOn(SubSeq(s, i + 1, Len(s)), c)

-----------------------------------------------------------------------------
(* utils/validation.py: Validator *)

MinSeason == 1871
MinNameLen == 2
MaxNameLen == 50
MaxRangeDays == 1825
StatcastFirstYear == 2015

\* runs of ASCII letters that occur in the inputs of this model
LetterRuns ==
    {"a", "b", "A", "Z", "x", "Mike", "Trout", "Al", "Bo", "Cy", "O", "Neil",
     "Total", "Hits", "Jr", "jr", "Ken", "Griffey"}

\* one character of the class [a-zA-Z\s\-'\.] of validate_player_name
NameChar(c) == c \in LetterRuns \cup WhiteSpace \cup {"-", "'", "."}

\* the same class with a plain space in place of \s
NameCharSpaceOnly(c) == c \in LetterRuns \cup {" ", "-", "'", "."}

\* re.match(r"^[a-zA-Z\s\-'\.]+$", s)
NameRegexMatches(s) == s # <<>> /\ \A i \in 1..Len(s) : NameChar(s[i])

validate_player_name(name) ==
    IF ~Truthy(name) \/ name.t # "str"
    THEN Raise("ValidationError", <<"Player name must be a non-empty string">>)
    ELSE LET cleaned_name == Strip(name.v)
         IN  IF StrLen(cleaned_name) < MinNameLen
             THEN Raise("ValidationError", <<"Player name must be at least 2 characters long">>)
             ELSE IF StrLen(cleaned_name) > MaxNameLen
             THEN Raise("ValidationError", <<"Player name is unusually long">>)
             ELSE IF ~NameRegexMatches(cleaned_name)
             THEN Raise("ValidationError", <<"Player name contains invalid characters">>)
             ELSE Ok(PyStr(cleaned_name))

RECURSIVE DigitsToNat(_)
DigitsToNat(s) == IF s = <<>> THEN 0 ELSE 10 * DigitsToNat(SubSeq(s, 1, Len(s) - 1)) + DigitVal(s[Len(s)])

AllDigits(s) == s # <<>> /\ \A i \in 1..Len(s) : s[i] \in Digits

\* int(x): Ok(n), or Raise for what Python raises
PyIntOf(x) ==
    CASE x.t = "int" -> Ok(x.v)
      [] x.t = "bool" -> Ok(IF x.v THEN 1 ELSE 0)
      [] x.t = "float" -> Ok(IF x.v < 0 THEN -((-x.v) \div 10) ELSE x.v \div 10)
      [] x.t = "str" ->
            LET s == Strip(x.v)
                neg == s # <<>> /\ Head(s) = "-"
                d == IF s # <<>> /\ Head(s) \in {"-", "+"} THEN Tail(s) ELSE s
            IN  IF AllDigits(d) THEN Ok(IF neg THEN -DigitsToNat(d) ELSE DigitsToNat(d))
                ELSE Raise("ValueError", <<"invalid literal for int()">>)
      [] OTHER -> Raise("TypeError", <<"int() argument must be a string or a real number">>)

\* float(x) in tenths: Ok(tenths), or Raise for what Python raises
PyFloatOf(x) ==
    CASE x.t = "int" -> Ok(10 * x.v)
      [] x.t = "bool" -> Ok(IF x.v THEN 10 ELSE 0)
      [] x.t = "float" -> Ok(x.v)
      [] x.t = "str" ->
            LET s == Strip(x.v)
                neg == s # <<>> /\ Head(s) = "-"
                d == IF s # <<>> /\ Head(s) \in {"-", "+"} THEN Tail(s) ELSE s
                parts == SplitOn(d, ".")
                mag == IF Len(parts) = 1 THEN 10 * DigitsToNat(parts[1])
                       ELSE 10 * DigitsToNat(parts[1]) + DigitVal(parts[2][1])
            IN  IF AllDigits(d) \/ (Len(parts) = 2 /\ AllDigits(parts[1])
                                     /\ Len(parts[2]) = 1 /\ AllDigits(parts[2]))
                THEN Ok(IF neg THEN -mag ELSE mag)
                ELSE Raise("ValueError", <<"could not convert string to float">>)
      [] OTHER -> Raise("TypeError", <<"float() argument must be a string or a real number">>)

\* a first season one year later
SeasonTooEarlyOffByOne(season_int) == season_int <= MinSeason
SeasonTooEarly(season_int) == season_int < MinSeason

validate_season(season, year) ==
    LET conv == PyIntOf(season)
    IN  IF ~conv.ok THEN Raise("ValidationError", <<"Season must be a valid year">>)
        ELSE IF SeasonTooEarly(conv.v)
        THEN Raise("ValidationError", <<"Season cannot be before 1871">>)
        ELSE IF conv.v > year + 1
        THEN Raise("ValidationError", <<"Season cannot be after ">> \o IntToStr(year + 1))
        ELSE Ok(PyInt(conv.v))

\* f"{x}" of a number passed as min_val / max_val
NumToStr(x) == IF x.t = "float" THEN FloatToStr(x.v) ELSE IntToStr(x.v)
NumTenths(x) == IF x.t = "float" THEN x.v ELSE 10 * x.v

validate_numeric_range(value, min_val, max_val, param_name) ==
    LET conv == PyFloatOf(value)
    IN  IF ~conv.ok
        THEN Raise("ValidationError", param_name \o <<" must be a valid number">>)
        ELSE IF min_val.t # "NoneType" /\ conv.v < NumTenths(min_val)
        THEN Raise("ValidationError", param_name \o <<" must be at least ">> \o NumToStr(min_val))
        ELSE IF max_val.t # "NoneType" /\ conv.v > NumTenths(max_val)
        THEN Raise("ValidationError", param_name \o <<" cannot exceed ">> \o NumToStr(max_val))
        ELSE Ok(PyFloat(conv.v))

validate_page_size(page_size, max_size) ==
    LET conv == PyIntOf(page_size)
    IN  IF ~conv.ok THEN Raise("ValidationError", <<"Page size must be a valid integer">>)
        ELSE IF conv.v < 1 THEN Raise("ValidationError", <<"Page size must be at least 1">>)
        ELSE IF conv.v > max_size
        THEN Raise("ValidationError", <<"Page size cannot exceed ">> \o IntToStr(max_size))
        ELSE Ok(PyInt(conv.v))

(* dates: datetime.strptime, datetime.strftime, date arithmetic *)

IsLeap(y) == (y % 4 = 0 /\ y % 100 # 0) \/ y % 400 = 0

DaysInMonth(y, m) ==
    IF m = 2 THEN (IF IsLeap(y) THEN 29 ELSE 28)
    ELSE IF m \in {4, 6, 9, 11} THEN 30 ELSE 31

RECURSIVE DaysBeforeMonth(_, _)
DaysBeforeMonth(y, m) == IF m = 1 THEN 0 ELSE DaysBeforeMonth(y, m - 1) + DaysInMonth(y, m - 1)

\* date.toordinal(): 0001-01-01 is day 1
Ordinal(dt) ==
    LET p == dt.y - 1
    IN  365 * p + (p \div 4) - (p \div 100) + (p \div 400) + DaysBeforeMonth(dt.y, dt.m) + dt.d

\* the four formats tried by validate_date, in order
date_formats ==
    << [order |-> <<"Y", "m", "d">>, sep |-> "-"],
       [order |-> <<"m", "d", "Y">>, sep |-> "/"],
       [order |-> <<"m", "d", "Y">>, sep |-> "-"],
       [order |-> <<"Y", "m", "d">>, sep |-> "/"] >>

\* what strptime's regular expression accepts for one directive:
\* %Y is \d\d\d\d, %m is 1[0-2]|0[1-9]|[1-9], %d is 3[01]|[12]\d|0[1-9]|[1-9]| [1-9]
FieldMatches(directive, f) ==
    CASE directive = "Y" -> Len(f) = 4 /\ AllDigits(f)
      [] directive = "m" -> Len(f) \in {1, 2} /\ AllDigits(f) /\ DigitsToNat(f) \in 1..12
      [] directive = "d" ->
            \/ Len(f) \in {1, 2} /\ AllDigits(f) /\ DigitsToNat(f) \in 1..31
            \/ Len(f) = 2 /\ f[1] = " " /\ f[2] \in Digits \ {"0"}

FieldValue(f) == IF f[1] = " " THEN DigitVal(f[2]) ELSE DigitsToNat(f)

\* datetime.strptime(s, fmt): Ok([y, m, d]) or Raise("ValueError", ..)
strptime(s, fmt) ==
    LET fields == SplitOn(s, fmt.sep)
        val(directive) ==
            FieldValue(fields[CHOOSE i \in 1..3 : fmt.order[i] = directive])
    IN  IF Len(fields) # 3 \/ \E i \in 1..3 : ~FieldMatches(fmt.order[i], fields[i])
        THEN Raise("ValueError", <<"time data does not match format">>)
        ELSE IF val("Y") < 1 \/ val("d") > DaysInMonth(val("Y"), val("m"))
        THEN Raise("ValueError", <<"day is out of range for month">>)
        ELSE Ok([y |-> val("Y"), m |-> val("m"), d |-> val("d")])

\* dt.strftime('%Y-%m-%d'); glibc does not pad %Y, the BSD libc pads it to 4 digits
strftime(dt, platform) ==
    (IF platform = "glibc" THEN NatToStr(dt.y) ELSE ZeroPad(NatToStr(dt.y), 4))
    \o <<"-">> \o ZeroPad(NatToStr(dt.m), 2) \o <<"-">> \o ZeroPad(NatToStr(dt.d), 2)

RECURSIVE FirstParse(_, _)
\* the loop over date_formats: the first format that parses, or Raise
FirstParse(s, fmts) ==
    IF fmts = <<>> THEN Raise("ValueError", <<"no format matches">>)
    ELSE IF strptime(s, Head(fmts)).ok THEN strptime(s, Head(fmts))
    ELSE FirstParse(s, Tail(fmts))

validate_date(date_str, platform) ==
    IF ~Truthy(date_str) \/ date_str.t # "str"
    THEN Raise("ValidationError", <<"Date must be a non-empty string">>)
    ELSE LET parsed_date == FirstParse(date_str.v, date_formats)
         IN  IF ~parsed_date.ok
             THEN Raise("ValidationError",
                        <<"Invalid date format: ">> \o date_str.v \o <<". Use YYYY-MM-DD format">>)
             ELSE Ok(PyStr(strftime(parsed_date.v, platform)))

\* (end_dt - start_dt).days > 365 * 5
RangeTooLong(start_dt, end_dt) == Ordinal(end_dt) - Ordinal(start_dt) > MaxRangeDays

PyTuple2(a, b) == [t |-> "tuple", v |-> <<a, b>>]

validate_date_range(start_date, end_date, platform) ==
    LET start == validate_date(start_date, platform)
        end == validate_date(end_date, platform)
        start_dt == strptime(start.v.v, date_formats[1])
        end_dt == strptime(end.v.v, date_formats[1])
    IN  IF ~start.ok THEN start
        ELSE IF ~end.ok THEN end
        ELSE IF ~start_dt.ok THEN start_dt
        ELSE IF ~end_dt.ok THEN end_dt
        ELSE IF Ordinal(start_dt.v) >= Ordinal(end_dt.v)
        THEN Raise("ValidationError", <<"Start date must be before end date">>)
        ELSE IF RangeTooLong(start_dt.v, end_dt.v)
        THEN Raise("ValidationError", <<"Date range cannot exceed 5 years">>)
        ELSE Ok(PyTuple2(start.v, end.v))

validate_statcast_params(start_date, end_date, platform) ==
    LET range == validate_date_range(start_date, end_date, platform)
        start_dt_obj == strptime(range.v.v[1].v, date_formats[1])
    IN  IF ~range.ok THEN range
        ELSE IF ~start_dt_obj.ok THEN start_dt_obj
        ELSE IF start_dt_obj.v.y < StatcastFirstYear
        THEN Raise("ValidationError", <<"Statcast data is only available from 2015 onwards">>)
        ELSE range

-----------------------------------------------------------------------------
(* Tables of the external source (pandas DataFrame).  A table is            *)
(* [columns |-> sequence of column names, rows |-> sequence of rows], a row *)
(* a function from the column names to Python values.                       *)

DataFrame(columns, rows) == [columns |-> columns, rows |-> rows]

\* df.empty
IsEmpty(df) == df.rows = <<>> \/ df.columns = <<>>

HasColumn(df, c) == \E i \in 1..Len(df.columns) : df.columns[i] = c

\* the text of a column name
ColumnText(col) ==
    CASE col = "K%" -> <<"K", "%">>
      [] col = "CHART_ARTIFACT:" -> <<"CHART_ARTIFACT", ":">>
      [] col = "Total Hits" -> <<"Total", " ", "Hits">>
      [] col = "Average: mph" -> <<"Average", ":", " ", "mph">>
      [] OTHER -> <<col>>

\* df.head(n)
HeadRows(df, n) ==
    DataFrame(df.columns, IF Len(df.rows) > n THEN SubSeq(df.rows, 1, n) ELSE df.rows)

\* str(x) / f"{x}" of a Python value
PyToStr(x) ==
    CASE x.t = "str" -> x.v
      [] x.t = "int" -> IntToStr(x.v)
      [] x.t = "float" -> FloatToStr(x.v)
      [] x.t = "bool" -> IF x.v THEN <<"True">> ELSE <<"False">>
      [] x.t = "NoneType" -> <<"None">>
      [] x.t = "nan" -> <<"nan">>

IsNumber(x) == x.t \in {"int", "float"}

\* numpy.nan in a column of floats: a missing value
PyNaN == [t |-> "nan"]

\* the value of a number in tenths, to compare numbers of both types
Tenths(x) == IF x.t = "float" THEN x.v ELSE 10 * x.v

-----------------------------------------------------------------------------
(* utils/data_processing.py: DataProcessor *)

DataUriPrefix == <<"data", ":", "image/png;base64,">>

\* base64.b64encode(..).decode(): the PNG signature encodes to "iVBORw0KGgo",
\* every further block of image bytes to a block of base64 characters
Base64Block(b) == IF b = "PNG-SIGNATURE" THEN "iVBORw0KGgo" ELSE "QUJDRA"

b64encode(bytes) == [i \in 1..Len(bytes) |-> Base64Block(bytes[i])]

encode_image_to_base64(image_buffer) == DataUriPrefix \o b64encode(image_buffer)

\* one line of the pipe table: | a | b |
MarkdownRow(cells) == <<"|", " ">> \o JoinWith(<<" ", "|", " ">>, cells) \o <<" ", "|">>

\* df.to_markdown(index=False, tablefmt="pipe"), without the padding of the cells
to_markdown(df) ==
    LET header == MarkdownRow([i \in 1..Len(df.columns) |-> ColumnText(df.columns[i])])
        rule == MarkdownRow([i \in 1..Len(df.columns) |-> <<":", "-", "-", "-">>])
        line(r) == MarkdownRow([i \in 1..Len(df.columns) |-> PyToStr(r[df.columns[i]])])
    IN  JoinWith(<<"\n">>, <<header, rule>> \o [i \in 1..Len(df.rows) |-> line(df.rows[i])])

\* format_dataframe_as_markdown with the heading of the empty table written as the
\* heading of line 66 is: only for a title that is not empty
format_dataframe_as_markdown_heading_if_title(df, title) ==
    (IF title # <<>> THEN <<"#", "#", " ">> \o title \o <<"\n", "\n">> ELSE <<>>)
    \o (IF IsEmpty(df) THEN <<"No data available.">> ELSE to_markdown(df))

format_dataframe_as_markdown(df, title) ==
    IF IsEmpty(df) THEN <<"#", "#", " ">> \o title \o <<"\n", "\n", "No data available.">>
    ELSE (IF title # <<>> THEN <<"#", "#", " ">> \o title \o <<"\n", "\n">> ELSE <<>>)
         \o to_markdown(df)

\* df.select_dtypes(include=[np.number]).columns, in column order
NumericColumns(df) ==
    LET numeric(c) == \A i \in 1..Len(df.rows) : IsNumber(df.rows[i][c]) \/ df.rows[i][c] = PyNaN
    IN  SelectSeq(df.columns, numeric)

\* df[col].isna().all()
AllMissing(df, col) == \A i \in 1..Len(df.rows) : df.rows[i][col] = PyNaN

NameColumnPriority == <<"Name", "Player", "Team", "name", "player", "team">>

\* the first column of df that is one of names: the order of the table in the
\* place of the order of the list
FirstPresentInColumnOrder(df, names) ==
    LET at == {i \in 1..Len(df.columns) : \E k \in 1..Len(names) : names[k] = df.columns[i]}
    IN  IF at = {} THEN "" ELSE df.columns[CHOOSE i \in at : \A j \in at : i <= j]

RECURSIVE FirstPresent(_, _)
\* the first of names that is a column of df, or "" when none is
FirstPresent(df, names) ==
    IF names = <<>> THEN ""
    ELSE IF HasColumn(df, Head(names)) THEN Head(names) ELSE FirstPresent(df, Tail(names))

\* the rows of the column that hold a value
Valued(df, col) == {i \in 1..Len(df.rows) : df.rows[i][col] # PyNaN}

\* df[col].idxmax(): the first row holding the largest value, missing values skipped
IdxMax(df, col) ==
    CHOOSE i \in Valued(df, col) :
        /\ \A j \in Valued(df, col) : Tenths(df.rows[j][col]) <= Tenths(df.rows[i][col])
        /\ \A j \in Valued(df, col) : j < i => Tenths(df.rows[j][col]) < Tenths(df.rows[i][col])

\* df[col].idxmin(): the first row holding the smallest value, missing values skipped
IdxMin(df, col) ==
    CHOOSE i \in Valued(df, col) :
        /\ \A j \in Valued(df, col) : Tenths(df.rows[j][col]) >= Tenths(df.rows[i][col])
        /\ \A j \in Valued(df, col) : j < i => Tenths(df.rows[j][col]) > Tenths(df.rows[i][col])

MaxInsightColumns == 3

\* the line create_summary_insights writes for one numeric column
ColumnInsight(df, col) ==
    LET max_row == df.rows[IdxMax(df, col)]
        min_row == df.rows[IdxMin(df, col)]
        name_col == FirstPresent(df, NameColumnPriority)
    IN  IF name_col # ""
        THEN <<"U+1F3C6", " ", "*", "*">> \o ColumnText(col) \o <<"*", "*", ":", " ", "Highest = ">>
             \o PyToStr(max_row[col]) \o <<" ", "(">> \o PyToStr(max_row[name_col])
             \o <<")", ", Lowest = ">> \o PyToStr(min_row[col])
             \o <<" ", "(">> \o PyToStr(min_row[name_col]) \o <<")">>
        ELSE <<"U+1F4C8", " ", "*", "*">> \o ColumnText(col) \o <<"*", "*", ":", " ", "Range = ">>
             \o PyToStr(min_row[col]) \o <<" to ">> \o PyToStr(max_row[col])

create_summary_insights(df, context) ==
    IF IsEmpty(df) THEN <<"No data available for analysis.">>
    ELSE LET numeric_cols == NumericColumns(df)
             shown == IF Len(numeric_cols) > MaxInsightColumns
                      THEN SubSeq(numeric_cols, 1, MaxInsightColumns) ELSE numeric_cols
             insights ==
                 << <<"U+1F4CA", " ", "*", "*", "Dataset contains ">>
                    \o IntToStr(Len(df.rows)) \o <<" records", "*", "*">> >>
                 \o (IF context # <<>>
                     THEN << <<"U+1F50D", " ", "*", "*", "Context", "*", "*", ":", " ">> \o context >>
                     ELSE <<>>)
                 \o Concat([i \in 1..Len(shown) |->
                               IF AllMissing(df, shown[i]) THEN <<>>
                               ELSE << ColumnInsight(df, shown[i]) >>])
         IN  JoinWith(<<"\n">>, insights)

-----------------------------------------------------------------------------
(* utils/chart_display/artifact_creator.py                                  *)
(* A Python dict is a function from its keys; chart_data.get(k, default).   *)

DictGet(d, k, default) == IF k \in DOMAIN d THEN d[k] ELSE default

\* the glyphs as the source files spell them
ChartGlyph == <<"U+00F0", "U+0178", "U+201C", "U+0160">>
TargetGlyph == <<"U+00F0", "U+0178", "U+017D", "U+00AF">>
BoltGlyph == <<"U+00E2", "U+0161", "U+00A1">>

\* a dict whose assignment to a key it holds moves the key to the end
MetricsSetMovedToEnd(metrics, label, value) ==
    SelectSeq(metrics, LAMBDA m : m.label # label) \o << [label |-> label, value |-> value] >>

\* the summary metrics: a dict in insertion order, as a sequence of [label, value]
MetricsSet(metrics, label, value) ==
    IF \E i \in 1..Len(metrics) : metrics[i].label = label
    THEN [i \in 1..Len(metrics) |->
            IF metrics[i].label = label THEN [label |-> label, value |-> value] ELSE metrics[i]]
    ELSE Append(metrics, [label |-> label, value |-> value])

LastOf(parts) == parts[Len(parts)]

\* the part of an insight line that becomes a metric's value: insight.split(':')[-1]
ValuePart(insight) == LastOf(SplitOn(insight, ":"))
\* the same, cut at the first colon only
ValuePartFirstColon(insight) ==
    LET parts == SplitOn(insight, ":")
    IN  IF Len(parts) = 1 THEN insight ELSE JoinWith(<<":">>, Tail(parts))

\* one turn of the loop of _extract_summary_metrics
MetricsStep(metrics, raw) ==
    LET insight == Strip(raw)
        parts == SplitOn(Replace(insight, <<"-", " ">>, <<>>), ":")
    IN  IF Contains(insight, <<"Total", " ", "Hits">>)
        THEN MetricsSet(metrics, <<"Total", " ", "Hits">>,
                        Replace(Strip(ValuePart(insight)), <<"*">>, <<>>))
        ELSE IF StartsWith(insight, <<"-", " ">>) /\ Contains(insight, <<":">>)
                /\ Contains(insight, <<"%">>)
        THEN (IF Len(parts) = 2 THEN MetricsSet(metrics, Strip(parts[1]), Strip(parts[2]))
              ELSE metrics)
        ELSE IF Contains(insight, <<"Field", ":">>) /\ Contains(insight, <<"%">>)
        THEN (IF Len(parts) = 2 THEN MetricsSet(metrics, Strip(parts[1]), Strip(parts[2]))
              ELSE metrics)
        ELSE IF Contains(insight, <<"Average", ":">>) /\ Contains(insight, <<"mph">>)
        THEN MetricsSet(metrics, <<"Avg Exit Velocity">>, Strip(ValuePart(insight)))
        ELSE metrics

RECURSIVE MetricsLoop(_, _)
MetricsLoop(metrics, insights) ==
    IF insights = <<>> THEN metrics
    ELSE MetricsLoop(MetricsStep(metrics, Head(insights).v), Tail(insights))

\* Ok(metrics), or Raise when insights is no list of str
extract_summary_metrics(chart_data) ==
    LET insights == DictGet(chart_data, "insights", PyList(<<>>))
    IN  IF insights.t # "list"
        THEN Raise("TypeError", <<"object is not iterable">>)
        ELSE IF \E i \in 1..Len(insights.v) : insights.v[i].t # "str"
        THEN Raise("AttributeError", <<"object has no attribute ">>  \o <<"'", "strip", "'">>)
        ELSE Ok(MetricsLoop(<<>>, insights.v))

MetricCard(m) ==
    <<"\n", "<div class=", "\"", "metric", "\"", ">", "\n",
      "<span class=", "\"", "metric-label", "\"", ">">> \o m.label \o <<":", "</span><br>", "\n",
      "<span class=", "\"", "metric-value", "\"", ">">> \o m.value \o <<"</span>", "\n",
      "</div>", "\n">>

format_summary_metrics(metrics) ==
    IF metrics = <<>>
    THEN <<"<div style=", "'", "color: #6c757d; text-align: center;", "'", ">",
           "No summary data available", "</div>">>
    ELSE Concat([i \in 1..Len(metrics) |-> MetricCard(metrics[i])])

IsCategoryLine(insight) ==
    \/ StartsWith(insight, ChartGlyph)
    \/ StartsWith(insight, TargetGlyph)
    \/ StartsWith(insight, BoltGlyph)

InsightItem(raw) ==
    LET insight == Strip(raw)
    IN  IF IsCategoryLine(insight)
        THEN <<"<li class=", "\"", "category", "\"", ">">>
             \o Replace(Replace(insight, <<"*", "*">>, <<>>), <<"*">>, <<>>) \o <<"</li>">>
        ELSE IF StartsWith(insight, <<"-", " ">>)
        THEN <<"<li>">> \o Replace(insight, <<"-", " ">>, <<>>) \o <<"</li>">>
        ELSE IF insight # <<>> THEN <<"<li>">> \o insight \o <<"</li>">>
        ELSE <<>>

\* Ok(markup), or Raise when insights is no list of str
format_insights_list(insights) ==
    IF ~Truthy(insights) THEN Ok(<<"<li>", "No insights available", "</li>">>)
    ELSE IF insights.t # "list" THEN Raise("TypeError", <<"object is not iterable">>)
    ELSE IF \E i \in 1..Len(insights.v) : insights.v[i].t # "str"
    THEN Raise("AttributeError", <<"object has no attribute ">>  \o <<"'", "strip", "'">>)
    ELSE Ok(Concat([i \in 1..Len(insights.v) |-> InsightItem(insights.v[i].v)]))

\* the <head> of both documents: the style sheet is text without the
\* characters any code path inspects, but for the quotes around font names
DocumentHead(title, css) ==
    <<"<!DOCTYPE html>", "\n", "<html>", "\n", "<head>", "\n",
      "<meta charset=", "\"", "UTF-8", "\"", ">", "\n",
      "<meta name=", "\"", "viewport", "\"", " content=", "\"",
      "width=device-width, initial-scale=1.0", "\"", ">", "\n", "<title>">> \o title \o <<"</title>", "\n",
      "<style>", "\n", "font-family", ":", " -apple-system, BlinkMacSystemFont, ",
      "'", "Segoe UI", "'", ", Roboto, sans-serif;", "\n", css, "\n", "</style>", "\n",
      "</head>", "\n">>

\* "a" + image_data + "b" raises unless image_data is a str
ImageConcatFails(image_data) == Truthy(image_data) /\ image_data.t # "str"

\* the <img> of the compact document, or its placeholder
CompactImage(image_data) ==
    IF Truthy(image_data)
    THEN <<"<img src=", "'">> \o DataUriPrefix \o image_data.v \o <<"'", " alt=", "'", "Chart", "'", "/>">>
    ELSE <<"<div style=", "'", "padding: 20px; text-align: center; color: #6c757d;", "'", ">",
           "No chart available", "</div>">>

\* the document as the f-string leaves it, between two line breaks
KeepDocument(html_content) == html_content
\* html_content.strip()
StripDocument(html_content) == Strip(html_content)

create_compact_artifact_content(chart_data) ==
    LET summary_data == extract_summary_metrics(chart_data)
        image_data == DictGet(chart_data, "image_data", PyNone)
        html_content ==
            <<"\n">>
            \o DocumentHead(PyToStr(DictGet(chart_data, "title", PyStr(<<"Chart">>))), "compact-css")
            \o <<"<body>", "\n", "<div class=", "\"", "chart-container", "\"", ">", "\n",
                 "<div class=", "\"", "header", "\"", ">", "\n">>
            \o PyToStr(DictGet(chart_data, "title", PyStr(<<"Baseball Chart">>)))
            \o <<"\n", "</div>", "\n", "<div class=", "\"", "content", "\"", ">", "\n",
                 "<div class=", "\"", "chart-and-data", "\"", ">", "\n",
                 "<div class=", "\"", "chart-image", "\"", ">", "\n">>
            \o CompactImage(image_data)
            \o <<"\n", "</div>", "\n", "<div class=", "\"", "summary-data", "\"", ">", "\n">>
            \o format_summary_metrics(summary_data.v)
            \o <<"\n", "</div>", "\n", "</div>", "\n", "</div>", "\n", "</div>", "\n",
                 "</body>", "\n", "</html>", "\n">>
    IN  IF ~summary_data.ok THEN summary_data
        ELSE IF ImageConcatFails(image_data)
        THEN Raise("TypeError", <<"can only concatenate str to str">>)
        ELSE Ok(StripDocument(html_content))

FullImage(image_data) ==
    IF Truthy(image_data)
    THEN <<"<img src=", "'">> \o DataUriPrefix \o image_data.v
         \o <<"'", " class=", "'", "chart-image", "'", " alt=", "'", "Chart", "'", "/>">>
    ELSE <<"<p>", "No chart data available", "</p>">>

create_full_artifact_content(chart_data) ==
    LET items == format_insights_list(DictGet(chart_data, "insights", PyList(<<>>)))
        image_data == DictGet(chart_data, "image_data", PyNone)
        html_content ==
            <<"\n">>
            \o DocumentHead(PyToStr(DictGet(chart_data, "title", PyStr(<<"Chart">>))), "full-css")
            \o <<"<body>", "\n", "<div class=", "\"", "container", "\"", ">", "\n",
                 "<div class=", "\"", "header", "\"", ">", "\n", "<h1>">>
            \o PyToStr(DictGet(chart_data, "title", PyStr(<<"Baseball Chart">>)))
            \o <<"</h1>", "\n", "</div>", "\n", "<div class=", "\"", "chart-section", "\"", ">", "\n",
                 "<h2>">> \o ChartGlyph \o <<" Visualization", "</h2>", "\n">>
            \o FullImage(image_data)
            \o <<"\n", "</div>", "\n", "<div class=", "\"", "data-section", "\"", ">", "\n",
                 "<h2>", "U+00F0", "U+0178", "U+201C", "U+02C6", " Analysis", "</h2>", "\n",
                 "<ul class=", "\"", "insights", "\"", ">", "\n">>
            \o items.v
            \o <<"\n", "</ul>", "\n", "</div>", "\n", "</div>", "\n", "</body>", "\n", "</html>", "\n">>
    IN  IF ImageConcatFails(image_data)
        THEN Raise("TypeError", <<"can only concatenate str to str">>)
        ELSE IF ~items.ok THEN items
        ELSE Ok(StripDocument(html_content))

HtmlType == <<"text/html">>

\* an artifact whose title ends with its id
create_chart_artifact_id_in_title(chart_data, compact, artifact_id) ==
    LET content == IF compact THEN create_compact_artifact_content(chart_data)
                   ELSE create_full_artifact_content(chart_data)
    IN  IF ~content.ok THEN content
        ELSE Ok([type |-> <<"create">>,
                 id |-> artifact_id,
                 title |-> PyToStr(DictGet(chart_data, "title", PyStr(<<"Baseball Chart">>)))
                           \o <<" ">> \o artifact_id,
                 content |-> content.v,
                 artifact_type |-> HtmlType])

\* Ok(artifact) or Raise; artifact_id is f"baseball_chart_{uuid.uuid4().hex[:8]}"
create_chart_artifact(chart_data, compact, artifact_id) ==
    LET content == IF compact THEN create_compact_artifact_content(chart_data)
                   ELSE create_full_artifact_content(chart_data)
    IN  IF ~content.ok THEN content
        ELSE Ok([type |-> <<"create">>,
                 id |-> artifact_id,
                 title |-> PyToStr(DictGet(chart_data, "title", PyStr(<<"Baseball Chart">>))),
                 content |-> content.v,
                 artifact_type |-> HtmlType])

-----------------------------------------------------------------------------
(* str(dict) and eval(..): the wire format of a chart artifact *)

Range(s) == {s[i] : i \in 1..Len(s)}

\* the quote repr() puts around a str: double quotes when the text holds a
\* single quote and no double quote, single quotes otherwise
ReprQuote(s) == IF "'" \in Range(s) /\ "\"" \notin Range(s) THEN "\"" ELSE "'"

\* the same without the escape of the quote
ReprCharQuoteKept(c, q) ==
    CASE c = "\\" -> <<"\\", "\\">>
      [] c = "\n" -> <<"\\", "n">>
      [] c = "\t" -> <<"\\", "t">>
      [] OTHER -> <<c>>

\* repr() of one character inside quotes q
ReprChar(c, q) ==
    CASE c = "\\" -> <<"\\", "\\">>
      [] c = q -> <<"\\", q>>
      [] c = "\n" -> <<"\\", "n">>
      [] c = "\t" -> <<"\\", "t">>
      [] OTHER -> <<c>>

\* repr(s) of a str
ReprStr(s) ==
    <<ReprQuote(s)>> \o Concat([i \in 1..Len(s) |-> ReprChar(s[i], ReprQuote(s))])
    \o <<ReprQuote(s)>>

ArtifactKeys == <<"type", "id", "title", "content", "artifact_type">>

\* str(artifact): the dict's items in insertion order
ReprArtifact(artifact) ==
    <<"{">>
    \o JoinWith(<<",", " ">>,
                [i \in 1..Len(ArtifactKeys) |->
                    ReprStr(<<ArtifactKeys[i]>>) \o <<":", " ">> \o ReprStr(artifact[ArtifactKeys[i]])])
    \o <<"}">>

\* the character an escape sequence stands for; an unknown escape keeps its backslash
Unescape(c) ==
    CASE c = "n" -> <<"\n">>
      [] c = "t" -> <<"\t">>
      [] c \in {"\\", "'", "\""} -> <<c>>
      [] OTHER -> <<"\\", c>>

ParseFail == [ok |-> FALSE, val |-> <<>>, next |-> 0]

RECURSIVE Escaped(_, _, _)
\* the character of s at position j follows an odd run of backslashes that begins at lo or later
Escaped(s, lo, j) == j > lo /\ s[j - 1] = "\\" /\ ~Escaped(s, lo, j - 1)

\* a string literal of s at position i: its value and the position after its closing quote
ParseStrLit(s, i) ==
    LET closers == {j \in (i + 1)..Len(s) : s[j] = s[i] /\ ~Escaped(s, i + 1, j)}
        close == CHOOSE j \in closers : \A k \in closers : j <= k
        piece(m) == IF Escaped(s, i + 1, m) THEN Unescape(s[m])
                    ELSE IF s[m] = "\\" THEN <<>>
                    ELSE <<s[m]>>
    IN  IF i > Len(s) \/ s[i] \notin {"'", "\""} THEN ParseFail
        ELSE IF closers = {} THEN ParseFail
        ELSE IF \E m \in (i + 1)..(close - 1) : s[m] = "\n" THEN ParseFail
        ELSE [ok |-> TRUE, val |-> Concat([k \in 1..(close - i - 1) |-> piece(i + k)]),
              next |-> close + 1]

RECURSIVE ParseItems(_, _, _)
\* the items of a dict display from position i: 'key': 'value', ... }
ParseItems(s, i, acc) ==
    LET k == ParseStrLit(s, i)
        v == ParseStrLit(s, k.next + 2)
        items == Append(acc, [key |-> k.val, value |-> v.val])
    IN  IF ~k.ok \/ k.next + 1 > Len(s) \/ s[k.next] # ":" \/ s[k.next + 1] # " " THEN ParseFail
        ELSE IF ~v.ok \/ v.next > Len(s) THEN ParseFail
        ELSE IF s[v.next] = "}"
             THEN (IF v.next = Len(s) THEN [ok |-> TRUE, val |-> items, next |-> v.next + 1]
                   ELSE ParseFail)
        ELSE IF s[v.next] = "," /\ v.next + 1 <= Len(s) /\ s[v.next + 1] = " "
             THEN ParseItems(s, v.next + 2, items)
        ELSE ParseFail

\* eval(text) of a dict display of str items: Ok(items) or Raise("SyntaxError", ..)
PyEval(text) ==
    LET items == ParseItems(text, 2, <<>>)
    IN  IF text # <<>> /\ Head(text) = "{" /\ items.ok THEN Ok(items.val)
        ELSE Raise("SyntaxError", <<"invalid syntax">>)

\* d.get(key) of an evaluated dict: the last item with the key, PyNone when absent
ItemsGet(items, key) ==
    IF \E i \in 1..Len(items) : items[i].key = key
    THEN PyStr(items[CHOOSE i \in 1..Len(items) :
                        /\ items[i].key = key
                        /\ \A j \in (i + 1)..Len(items) : items[j].key # key].value)
    ELSE PyNone

-----------------------------------------------------------------------------
(* server.py: the chart display interceptor *)

ChartMarker == <<"CHART_ARTIFACT", ":">>

\* what process_chart_response returns: the response itself (a str), or
\* {"type": "artifact", "data": the evaluated dict}
process_chart_response(response) ==
    IF StartsWith(response, ChartMarker)
    THEN LET artifact_json == Replace(response, ChartMarker, <<>>)
             artifact_data == PyEval(artifact_json)
         IN  IF artifact_data.ok
             THEN [t |-> "dict", type |-> "artifact", data |-> artifact_data.v]
             ELSE PyStr(response)
    ELSE PyStr(response)

-----------------------------------------------------------------------------
(* The external statistics source (pybaseball): sample tables.  A call      *)
(* returns a table of 0..MaxRows rows or raises.                            *)

PlayerNames ==
    << <<"Mike", " ", "Trout">>, <<"Al", " ", "Bo">>, <<"Cy", " ", "O", "'", "Neil">>,
       <<"Ken", " ", "Griffey", " ", "Jr">> >>

\* the i-th sample player: the first two names in turn, so that a table of
\* three rows holds two rows of one player
SamplePlayer(i) == PlayerNames[((i - 1) % 2) + 1]

BattingRow(i) ==
    [Name |-> PyStr(SamplePlayer(i)), Team |-> PyStr(<<"LAA">>), HR |-> PyInt(10 * i),
     AVG |-> PyFloat(4 - (i % 3)), OBP |-> PyFloat(3 + (i % 2)), SLG |-> PyFloat(5)]

PitchingRow(i) ==
    [Name |-> PyStr(SamplePlayer(i)), ERA |-> PyFloat(30 + i), WHIP |-> PyFloat(11),
     WAR |-> PyFloat(20 * (i % 2))]
    @@ ("K/9" :> PyFloat(90 + i)) @@ ("K%" :> PyFloat(250 - i))

LookupRow(i) ==
    [name_last |-> PyStr(<<LastOf(SamplePlayer(i))>>), name_first |-> PyStr(<<Head(SamplePlayer(i))>>),
     key_mlbam |-> PyInt(545000 + i), key_fangraphs |-> PyInt(10000 + i),
     key_bbref |-> PyStr(<<"player0", DigitOf(i % 10)>>),
     mlb_played_first |-> PyInt(2010 + i), mlb_played_last |-> PyInt(2012 + 2 * i),
     birth_year |-> PyInt(1990 + i)]

\* a batted ball: every second row is an out, the others are hits
StatcastRow(i) ==
    [events |-> IF i % 2 = 0 THEN "strikeout" ELSE IF i % 4 = 1 THEN "single" ELSE "home_run",
     hc_x |-> PyFloat(1000 + 300 * (i % 3)), hc_y |-> PyFloat(1500),
     launch_speed |-> PyFloat(900 + 55 * i)]

TeamRow(i) ==
    [Team |-> PyStr(IF i = 1 THEN <<"BOS">> ELSE <<"NYY">>),
     HR |-> PyInt(200 + i), AVG |-> PyFloat(2 + (i % 2))]

Rows(Row(_), n) == [i \in 1..n |-> Row(i)]

BattingColumns == <<"Name", "Team", "HR", "AVG", "OBP", "SLG">>
PitchingColumns == <<"Name", "ERA", "WHIP", "K/9", "WAR", "K%">>
LookupColumns ==
    <<"name_last", "name_first", "key_mlbam", "key_fangraphs", "key_bbref",
      "mlb_played_first", "mlb_played_last", "birth_year">>
StatcastColumns == <<"events", "hc_x", "hc_y", "launch_speed">>
TeamColumns == <<"Team", "HR", "AVG">>

\* a table without the named columns (its rows keep the values, which nothing reads)
Without(df, dropped) ==
    DataFrame(SelectSeq(df.columns, LAMBDA c : c \notin dropped), df.rows)

\* the tables a call of the external function fn may return
TablesOf(fn) ==
    CASE fn \in {"batting_stats", "batting_stats_range"} ->
            {DataFrame(BattingColumns, Rows(BattingRow, n)) : n \in 0..MaxRows}
            \cup {Without(DataFrame(BattingColumns, Rows(BattingRow, 1)), {"Name"})}
      [] fn = "pitching_stats" ->
            {DataFrame(PitchingColumns, Rows(PitchingRow, n)) : n \in 0..MaxRows}
      [] fn \in {"playerid_lookup", "playerid_reverse_lookup"} ->
            {DataFrame(LookupColumns, Rows(LookupRow, n)) : n \in 0..MaxRows}
            \cup {Without(DataFrame(LookupColumns, Rows(LookupRow, 1)),
                          {"key_mlbam", "key_fangraphs", "mlb_played_first"})}
      [] fn = "statcast_batter" ->
            {DataFrame(StatcastColumns, Rows(StatcastRow, n)) : n \in 0..MaxRows}
            \cup {DataFrame(StatcastColumns, <<StatcastRow(2)>>),
                  Without(DataFrame(StatcastColumns, Rows(StatcastRow, 1)), {"hc_x"}),
                  Without(DataFrame(StatcastColumns, Rows(StatcastRow, 1)), {"launch_speed"})}
      [] fn = "team_batting" ->
            {DataFrame(TeamColumns, Rows(TeamRow, n)) : n \in 0..MaxRows}

\* the messages of the exceptions the external source raises
UpstreamErrors == { <<"HTTP Error 500", ":", " ", "Internal Server Error">> }

\* what the renderer (matplotlib) may do with a figure: an image buffer, or raise
RenderOutcomes ==
    { Ok(<<"PNG-SIGNATURE", "IDAT">>), Raise("ValueError", <<"Image size is too large">>) }

\* uuid.uuid4().hex[:8]
UuidSamples == {"0a1b2c3d", "ffffffff"}

-----------------------------------------------------------------------------
(* more of utils/validation.py: teams, free text, name suggestions *)

\* str.lower() and str.upper() of the words of this model
LowerChunk(c) ==
    CASE c = "Mike" -> "mike" [] c = "Trout" -> "trout" [] c = "Al" -> "al" [] c = "Bo" -> "bo"
      [] c = "Cy" -> "cy" [] c = "O" -> "o" [] c = "Neil" -> "neil" [] c = "Ken" -> "ken"
      [] c = "Griffey" -> "griffey" [] c = "Jr" -> "jr" [] c = "Total" -> "total"
      [] c = "Hits" -> "hits" [] c = "A" -> "a" [] c = "Z" -> "z"
      [] c = "AL" -> "al" [] c = "NL" -> "nl" [] c = "ALL" -> "all"
      [] c = "MLBAM" -> "mlbam" [] c = "BOS" -> "bos" [] c = "Bos" -> "bos"
      [] OTHER -> c

UpperChunk(c) ==
    CASE c = "bos" -> "BOS" [] c = "Bos" -> "BOS" [] c = "nyy" -> "NYY" [] c = "xyz" -> "XYZ"
      [] c = "a" -> "A" [] c = "b" -> "B" [] c = "x" -> "X"
      [] OTHER -> c

LowerStr(s) == [i \in 1..Len(s) |-> LowerChunk(s[i])]
UpperStr(s) == [i \in 1..Len(s) |-> UpperChunk(s[i])]

\* sorted(self.valid_teams)
sorted_valid_teams ==
    <<"ARI", "ATL", "BAL", "BOS", "CHC", "CIN", "CLE", "COL", "CWS", "DET", "HOU", "KC",
      "LAA", "LAD", "MIA", "MIL", "MIN", "NYM", "NYY", "OAK", "PHI", "PIT", "SD", "SEA",
      "SF", "STL", "TB", "TEX", "TOR", "WSH">>

valid_teams == Range(sorted_valid_teams)

\* validate_team without the upper() of line 126: membership by exact spelling
validate_team_case_sensitive(team) ==
    IF ~Truthy(team) \/ team.t # "str"
    THEN Raise("ValidationError", <<"Team must be a non-empty string">>)
    ELSE LET team_upper == Strip(team.v)
         IN  IF Len(team_upper) # 1 \/ team_upper[1] \notin valid_teams
             THEN Raise("ValidationError", <<"Invalid team abbreviation: ">> \o team.v)
             ELSE Ok(PyStr(team_upper))

validate_team(team) ==
    IF ~Truthy(team) \/ team.t # "str"
    THEN Raise("ValidationError", <<"Team must be a non-empty string">>)
    ELSE LET team_upper == Strip(UpperStr(team.v))
         IN  IF Len(team_upper) # 1 \/ team_upper[1] \notin valid_teams
             THEN Raise("ValidationError",
                        <<"Invalid team abbreviation: ">> \o team.v \o <<". Valid teams: ">>
                        \o JoinWith(<<",", " ">>, [i \in 1..Len(sorted_valid_teams) |->
                                                      <<sorted_valid_teams[i]>>]))
             ELSE Ok(PyStr(team_upper))

\* re.sub(r'[<>"\';]', '', text).strip(); str(text) of what is no str
sanitize_input(text) ==
    IF text.t # "str" THEN PyToStr(text)
    ELSE Strip(SelectSeq(text.v, LAMBDA c : c \notin {"<", ">", "\"", "'", ";"}))

RECURSIVE SplitWords(_)
\* s.split(): the words between runs of white space
SplitWords(s) ==
    LET t == LStrip(s)
        n == IF \E i \in 1..Len(t) : t[i] \in WhiteSpace
             THEN (CHOOSE i \in 1..Len(t) :
                      t[i] \in WhiteSpace /\ \A j \in 1..(i - 1) : t[j] \notin WhiteSpace) - 1
             ELSE Len(t)
    IN  IF t = <<>> THEN <<>>
        ELSE <<SubSeq(t, 1, n)>> \o SplitWords(SubSeq(t, n + 1, Len(t)))

Abbreviations ==
    << [abbr |-> <<"jr">>, full |-> <<"Jr", ".">>], [abbr |-> <<"sr">>, full |-> <<"Sr", ".">>],
       [abbr |-> <<"ii">>, full |-> <<"II">>], [abbr |-> <<"iii">>, full |-> <<"III">>] >>

\* the suggestions of validate_and_suggest_player_name for a name that validates
NameSuggestions(cleaned_name) ==
    LET parts == SplitWords(cleaned_name)
        swapped == IF "," \notin Range(cleaned_name) /\ Len(parts) = 2
                   THEN << parts[2] \o <<",", " ">> \o parts[1] >> ELSE <<>>
        spelled(a) == IF Contains(LowerStr(cleaned_name), a.abbr) /\ ~Contains(cleaned_name, a.full)
                      THEN << Replace(cleaned_name, a.abbr, a.full) >> ELSE <<>>
    IN  swapped \o Concat([i \in 1..Len(Abbreviations) |-> spelled(Abbreviations[i])])

\* Ok(<<cleaned name, suggestions>>) or the Raise of validate_player_name
validate_and_suggest_player_name(name) ==
    LET cleaned == validate_player_name(name)
    IN  IF ~cleaned.ok THEN cleaned
        ELSE Ok([t |-> "tuple", v |-> <<cleaned.v, NameSuggestions(cleaned.v.v)>>])

-----------------------------------------------------------------------------
(* The tool handlers.  A handler body runs until it returns, raises, or      *)
(* calls the external source or the renderer; the call's outcome resumes it.  *)
(* Every body is inside  try: .. except ValidationError .. except Exception.  *)

NoExc == [ok |-> TRUE]
NoChart == [built |-> FALSE]

\* the body returned resp
BodyReturn(resp) ==
    [k |-> "return", resp |-> resp, logs |-> 0, caught |-> NoExc, made |-> NoChart]
\* the body caught e in an inner except clause, logged it and returned resp
BodyReturnLogged(resp, e) ==
    [k |-> "return", resp |-> resp, logs |-> 1, caught |-> e, made |-> NoChart]
\* the body built a chart artifact and returned resp
BodyReturnChart(resp, chart_data, artifact) ==
    [k |-> "return", resp |-> resp, logs |-> 0, caught |-> NoExc,
     made |-> [built |-> TRUE, chart_data |-> chart_data, artifact |-> artifact]]
\* the body raised e
BodyRaise(e) == [k |-> "raise", e |-> e]
\* the body calls function fn of the external source, with locals l
BodyCall(fn, l) == [k |-> "call", fn |-> fn, loc |-> l]
\* the body has the renderer draw and save the figure, with locals l
BodyRender(l) == [k |-> "render", loc |-> l]

\* the failure indicator as each module spells it
CrossMark == <<"U+274C">>
PlottingCrossMark == <<"U+00E2", "U+0152">>

\* a handler without the second except clause: the exception leaves it
ExceptExceptionMissing(glyph, label, e) ==
    [ret |-> e, logs |-> 0, caught |-> NoExc, made |-> NoChart]

\* except Exception as e: logger.error(..); return f"<glyph> Error <label>: {e}"
ExceptException(glyph, label, e) ==
    [ret |-> Ok(PyStr(glyph \o <<" ">> \o label \o <<":", " ">> \o e.msg)),
     logs |-> 1, caught |-> e, made |-> NoChart]

\* a handler without the first except clause: the second one takes the error
ExceptValidationErrorMissing(glyph, label, e) == ExceptException(glyph, label, e)

\* except ValidationError as e: return f"<glyph> Validation Error: {e}"
ExceptValidationError(glyph, label, e) ==
    [ret |-> Ok(PyStr(glyph \o <<" ", "Validation Error", ":", " ">> \o e.msg)),
     logs |-> 0, caught |-> e, made |-> NoChart]

\* what the try statement of a handler makes of a body that has finished
Boundary(glyph, label, r) ==
    IF r.k = "return"
    THEN [ret |-> Ok(PyStr(r.resp)), logs |-> r.logs, caught |-> r.caught, made |-> r.made]
    ELSE IF r.e.exc = "ValidationError" THEN ExceptValidationError(glyph, label, r.e)
    ELSE ExceptException(glyph, label, r.e)

\* ctx.request_context of ctx=None
NoContext ==
    Raise("AttributeError",
          <<"'", "NoneType", "'", " object has no attribute ", "'", "request_context", "'">>)

\* x.lower() of what is no str
NoLower(x) ==
    Raise("AttributeError",
          <<"'", x.t, "'", " object has no attribute ", "'", "lower", "'">>)

\* str(KeyError(col))
KeyError(col) == Raise("KeyError", <<"'">> \o ColumnText(col) \o <<"'">>)

valid_leagues == << <<"all">>, <<"al">>, <<"nl">> >>

InvalidLeague ==
    Raise("ValidationError",
          <<"Invalid league. Valid options", ":", " ">> \o JoinWith(<<",", " ">>, valid_leagues))

-----------------------------------------------------------------------------
(* tools/stats_tools.py *)

\* what get_batting_stats and get_pitching_stats differ in
BattingStats ==
    [fn |-> "batting_stats", max_qual |-> 700, noun |-> "batting", Noun |-> "Batting",
     unit |-> <<>>, abbr |-> "PA", span |-> "plate appearances",
     about |-> "Standard batting statistics including traditional metrics like AVG, OBP, SLG, HR, RBI, and advanced metrics like WAR."]
PitchingStats ==
    [fn |-> "pitching_stats", max_qual |-> 300, noun |-> "pitching", Noun |-> "Pitching",
     unit |-> <<" ", "IP">>, abbr |-> "IP", span |-> "innings pitched",
     about |-> "Standard pitching statistics including traditional metrics like ERA, WHIP, K/9, BB/9, and advanced metrics like WAR."]

\* the body of get_batting_stats / get_pitching_stats up to the external call
SeasonStats(cfg, a, year) ==
    LET season == validate_season(a.season, year)
        qual == validate_numeric_range(a.qual, PyInt(0), PyInt(cfg.max_qual), <<"qual">>)
    IN  IF ~a.ctx THEN BodyRaise(NoContext)
        ELSE IF ~season.ok THEN BodyRaise(season)
        ELSE IF ~qual.ok THEN BodyRaise(qual)
        ELSE IF a.league.t # "str" THEN BodyRaise(NoLower(a.league))
        ELSE IF \A i \in 1..Len(valid_leagues) : valid_leagues[i] # LowerStr(a.league.v)
        THEN BodyRaise(InvalidLeague)
        ELSE BodyCall(cfg.fn, [season |-> season.v, qual |-> qual.v,
                               league |-> LowerStr(a.league.v)])

\* the inner except clause: the external call raised pyb_error
SeasonStatsFetchFailed(cfg, pyb_error) ==
    BodyReturnLogged(
        CrossMark \o <<" ", "Error fetching ", cfg.noun, " statistics from pybaseball", ":", " ">>
        \o pyb_error.msg, pyb_error)

\* the same body from the return of the external call
SeasonStatsReturned(cfg, a, l, df) ==
    LET season == IntToStr(l.season.v)
        qual == PyToStr(l.qual)
        title == season \o <<" ", cfg.Noun, " Statistics (Default Stats) - Min ">> \o qual
                 \o <<" ", cfg.abbr>>
        insights == create_summary_insights(
                        df, season \o <<" season with ">> \o qual \o <<"+", " ", cfg.span>>)
    IN  IF IsEmpty(df)
        THEN BodyReturn(CrossMark \o <<" ", "No ", cfg.noun, " statistics found for ">> \o season
                        \o <<" with qualifier ">> \o qual \o <<"+">> \o cfg.unit)
        ELSE BodyReturn(
                 format_dataframe_as_markdown(df, title)
                 \o <<"\n", "\n", "#", "#", "#", " ", "Season Insights", "\n">> \o insights
                 \o <<"\n", "\n", "*", "*", "About Default Stats", "*", "*", ":", " ", cfg.about>>
                 \o (IF a.stat_columns # <<"standard">>
                     THEN <<"\n", "\n", "*", "Note", ":", " ", "Advanced stat type ", "'">>
                          \o a.stat_columns
                          \o <<"'", " was requested but default columns are used in this version.", "*">>
                     ELSE <<>>))

get_batting_stats(a, year) == SeasonStats(BattingStats, a, year)
get_batting_stats_returned(a, l, df) == SeasonStatsReturned(BattingStats, a, l, df)
get_pitching_stats(a, year) == SeasonStats(PitchingStats, a, year)
get_pitching_stats_returned(a, l, df) == SeasonStatsReturned(PitchingStats, a, l, df)

\* a/b rounded to the nearest integer, ties to the even one (a >= 0, b > 0)
RoundHalfEven(a, b) ==
    LET q == a \div b
        r == a % b
    IN  IF 2 * r < b THEN q
        ELSE IF 2 * r > b THEN q + 1
        ELSE IF q % 2 = 0 THEN q ELSE q + 1

\* f"{x:.3f}" of x thousandths
Fixed3(thousandths) ==
    NatToStr(thousandths \div 1000) \o <<".">> \o ZeroPad(NatToStr(thousandths % 1000), 3)

\* f"{x:.1f}" of x tenths
Fixed1(tenths) == NatToStr(tenths \div 10) \o <<".", DigitOf(tenths % 10)>>

RECURSIVE SumTenths(_, _)
SumTenths(rows, col) ==
    IF rows = <<>> THEN 0 ELSE Tenths(Head(rows)[col]) + SumTenths(Tail(rows), col)

\* df[df['Name'].str.contains(name, case=False, na=False)]
RowsNamed(df, name) ==
    DataFrame(df.columns,
              SelectSeq(df.rows, LAMBDA r : Contains(LowerStr(r["Name"].v), LowerStr(name))))

SummaryColumns == <<"AVG", "OBP", "SLG", "OPS", "HR", "RBI">>

\* one line of the career summary
SummaryLine(player_stats, col) ==
    <<"-", " ", "*", "*", col, "*", "*", ":", " ", "Avg ">>
    \o Fixed3(RoundHalfEven(100 * SumTenths(player_stats.rows, col), Len(player_stats.rows)))
    \o <<", Best ">> \o Fixed3(100 * Tenths(player_stats.rows[IdxMax(player_stats, col)][col]))
    \o <<", Worst ">> \o Fixed3(100 * Tenths(player_stats.rows[IdxMin(player_stats, col)][col]))
    \o <<"\n">>

\* the career summary of get_player_batting_stats_range
CareerSummary(player_stats, span) ==
    LET numeric_cols == Range(NumericColumns(player_stats))
        cols == SelectSeq(SummaryColumns, LAMBDA c : c \in numeric_cols)
    IN  IF Len(player_stats.rows) > 1 /\ cols # <<>>
        THEN <<"\n", "\n", "#", "#", "#", " ", "Career Summary (">> \o span \o <<")", "\n">>
             \o Concat([i \in 1..Len(cols) |-> SummaryLine(player_stats, cols[i])])
        ELSE <<>>

\* the value of row.get(col): PyNone when the table has no such column
RowGet(df, row, col) == IF HasColumn(df, col) THEN row[col] ELSE PyNone

\* f"{row.get(col, default)}"
RowText(df, row, col, default) == IF HasColumn(df, col) THEN PyToStr(row[col]) ELSE default

get_player_batting_stats_range(a, year) ==
    LET start_season == validate_season(a.start_season, year)
        end_season == validate_season(a.end_season, year)
        clean_name == validate_player_name(a.player_name)
    IN  IF ~a.ctx THEN BodyRaise(NoContext)
        ELSE IF ~start_season.ok THEN BodyRaise(start_season)
        ELSE IF ~end_season.ok THEN BodyRaise(end_season)
        ELSE IF ~clean_name.ok THEN BodyRaise(clean_name)
        ELSE IF start_season.v.v > end_season.v.v
        THEN BodyRaise(Raise("ValidationError",
                             <<"Start season must be before or equal to end season">>))
        ELSE BodyCall("playerid_lookup",
                      [stage |-> "lookup", start_season |-> start_season.v.v,
                       end_season |-> end_season.v.v, clean_name |-> clean_name.v.v])

get_player_batting_stats_range_returned(a, l, df) ==
    LET span == IntToStr(l.start_season) \o <<"-">> \o IntToStr(l.end_season)
        player_stats == RowsNamed(df, l.clean_name)
        title == l.clean_name \o <<" ", "Batting Statistics (">> \o span \o <<")">>
    IN  IF l.stage = "lookup"
        THEN (IF IsEmpty(df)
              THEN BodyReturn(CrossMark \o <<" ", "Player ", "'">> \o l.clean_name
                              \o <<"'", " not found">>)
              ELSE IF ~Truthy(RowGet(df, df.rows[1], "key_fangraphs"))
              THEN BodyReturn(CrossMark \o <<" ", "No FanGraphs ID found for ">> \o l.clean_name)
              ELSE BodyCall("batting_stats_range", [l EXCEPT !.stage = "stats"]))
        ELSE IF ~HasColumn(df, "Name") THEN BodyRaise(KeyError("Name"))
        ELSE IF IsEmpty(player_stats)
        THEN BodyReturn(CrossMark \o <<" ", "No batting statistics found for ">> \o l.clean_name
                        \o <<" from ">> \o IntToStr(l.start_season) \o <<" to ">>
                        \o IntToStr(l.end_season))
        ELSE BodyReturn(format_dataframe_as_markdown(player_stats, title)
                        \o CareerSummary(player_stats, span))

get_team_batting_stats(a, year) ==
    LET season == validate_season(a.season, year)
        team == IF Truthy(a.team) THEN validate_team(a.team) ELSE Ok(a.team)
    IN  IF ~a.ctx THEN BodyRaise(NoContext)
        ELSE IF ~season.ok THEN BodyRaise(season)
        ELSE IF ~team.ok THEN BodyRaise(team)
        ELSE IF a.league.t # "str" THEN BodyRaise(NoLower(a.league))
        ELSE IF \A i \in 1..Len(valid_leagues) : valid_leagues[i] # LowerStr(a.league.v)
        THEN BodyRaise(InvalidLeague)
        ELSE BodyCall("team_batting", [season |-> season.v.v, team |-> team.v])

get_team_batting_stats_returned(a, l, df) ==
    LET season == IntToStr(l.season)
        team_stats == DataFrame(df.columns, SelectSeq(df.rows, LAMBDA r : r["Team"] = l.team))
        shown == IF Truthy(l.team) THEN team_stats ELSE df
        title == IF Truthy(l.team) THEN l.team.v \o <<" ">> \o season \o <<" ", "Batting Statistics">>
                 ELSE season \o <<" ", "Team Batting Statistics">>
    IN  IF IsEmpty(df)
        THEN BodyReturn(CrossMark \o <<" ", "No team batting statistics found for ">> \o season)
        ELSE IF Truthy(l.team) /\ ~HasColumn(df, "Team") THEN BodyRaise(KeyError("Team"))
        ELSE IF Truthy(l.team) /\ IsEmpty(team_stats)
        THEN BodyReturn(CrossMark \o <<" ", "No batting statistics found for ">> \o l.team.v
                        \o <<" in ">> \o season)
        ELSE BodyReturn(
                 format_dataframe_as_markdown(shown, title)
                 \o (IF l.team = PyNone
                     THEN <<"\n", "\n", "#", "#", "#", " ", "League Insights", "\n">>
                          \o create_summary_insights(
                                 df, season \o <<" ", "team batting performance">>)
                     ELSE <<>>))

-----------------------------------------------------------------------------
(* tools/player_tools.py *)

\* the fixed text lookup_player_id appends to its table
LookupContext ==
    <<"\n", "#", "#", "#", " ", "How to Use These Results", ":", "\n",
      "-", " ", "*", "*", "key_mlbam", "*", "*", ":", " ", "Use for Statcast data queries", "\n",
      "-", " ", "*", "*", "key_fangraphs", "*", "*", ":", " ", "Use for FanGraphs statistics", "\n",
      "-", " ", "*", "*", "key_bbref", "*", "*", ":", " ", "Use for Baseball Reference statistics", "\n",
      "-", " ", "*", "*", "mlb_played_first/last", "*", "*", ":", " ", "Career span in MLB", "\n", " ">>

lookup_player_id(a, year) ==
    LET clean_name == validate_player_name(a.player_name)
        limit == validate_page_size(a.limit, 50)
    IN  IF ~a.ctx THEN BodyRaise(NoContext)
        ELSE IF ~clean_name.ok THEN BodyRaise(clean_name)
        ELSE IF ~limit.ok THEN BodyRaise(limit)
        ELSE BodyCall("playerid_lookup", [clean_name |-> clean_name.v.v, limit |-> limit.v.v])

\* the same body without df.head(limit)
lookup_player_id_returned_whole_table(a, l, df) ==
    LET suggestions == validate_and_suggest_player_name(PyStr(l.clean_name))
        suggestion_text ==
            IF suggestions.v.v[2] # <<>>
            THEN <<"\n", "\n", "*", "*", "Suggestions to try", ":", "*", "*", "\n">>
                 \o JoinWith(<<"\n">>, [i \in 1..Len(suggestions.v.v[2]) |->
                                          <<"-", " ">> \o suggestions.v.v[2][i]])
            ELSE <<>>
        truncated_note ==
            IF Len(df.rows) > l.limit
            THEN <<"\n", "\n", "*", "Note", ":", " ", "Results limited to ">> \o IntToStr(l.limit)
                 \o <<" entries", "*">>
            ELSE <<>>
        title == <<"Player Lookup Results for ", "'">> \o l.clean_name \o <<"'">>
    IN  IF IsEmpty(df)
        THEN (IF ~suggestions.ok THEN BodyRaise(suggestions)
              ELSE BodyReturn(CrossMark \o <<" ", "No players found for ", "'">> \o l.clean_name
                              \o <<"'">> \o suggestion_text))
        ELSE BodyReturn(format_dataframe_as_markdown(df, title)
                        \o LookupContext \o truncated_note)

lookup_player_id_returned(a, l, df) ==
    LET suggestions == validate_and_suggest_player_name(PyStr(l.clean_name))
        suggestion_text ==
            IF suggestions.v.v[2] # <<>>
            THEN <<"\n", "\n", "*", "*", "Suggestions to try", ":", "*", "*", "\n">>
                 \o JoinWith(<<"\n">>, [i \in 1..Len(suggestions.v.v[2]) |->
                                          <<"-", " ">> \o suggestions.v.v[2][i]])
            ELSE <<>>
        truncated_note ==
            IF Len(df.rows) > l.limit
            THEN <<"\n", "\n", "*", "Note", ":", " ", "Results limited to ">> \o IntToStr(l.limit)
                 \o <<" entries", "*">>
            ELSE <<>>
        title == <<"Player Lookup Results for ", "'">> \o l.clean_name \o <<"'">>
    IN  IF IsEmpty(df)
        THEN (IF ~suggestions.ok THEN BodyRaise(suggestions)
              ELSE BodyReturn(CrossMark \o <<" ", "No players found for ", "'">> \o l.clean_name
                              \o <<"'">> \o suggestion_text))
        ELSE BodyReturn(format_dataframe_as_markdown(HeadRows(df, l.limit), title)
                        \o LookupContext \o truncated_note)

valid_id_types == << <<"mlbam">>, <<"fangraphs">>, <<"bbref">> >>

\* the columns reverse_lookup_player prints by name
NamedColumns ==
    {"name_first", "name_last", "mlb_played_first", "mlb_played_last",
     "key_mlbam", "key_fangraphs", "key_bbref"}

\* col.replace('_', ' ').title()
ColumnTitle(col) == IF col = "birth_year" THEN <<"Birth", " ", "Year">> ELSE ColumnText(col)

reverse_lookup_player(a, year) ==
    IF ~a.ctx THEN BodyRaise(NoContext)
    ELSE IF ~Truthy(a.player_id)
    THEN BodyRaise(Raise("ValidationError", <<"Player ID cannot be empty">>))
    ELSE IF a.id_type.t # "str" THEN BodyRaise(NoLower(a.id_type))
    ELSE IF \A i \in 1..Len(valid_id_types) : valid_id_types[i] # Strip(LowerStr(a.id_type.v))
    THEN BodyRaise(Raise("ValidationError",
                         <<"Invalid ID type. Valid types", ":", " ">>
                         \o JoinWith(<<",", " ">>, valid_id_types)))
    ELSE BodyCall("playerid_reverse_lookup", [id_type |-> Strip(LowerStr(a.id_type.v))])

reverse_lookup_player_returned(a, l, df) ==
    LET player_info == df.rows[1]
        others == SelectSeq(df.columns, LAMBDA c : c \notin NamedColumns)
        field(label, col, default) ==
            <<"-", " ", "*", "*", label, "*", "*", ":", " ">>
            \o RowText(df, player_info, col, default) \o <<"\n">>
    IN  IF IsEmpty(df)
        THEN BodyReturn(CrossMark \o <<" ", "No player found with ">> \o l.id_type
                        \o <<" ", "ID", ":", " ">> \o PyToStr(a.player_id))
        ELSE BodyReturn(
                 <<"#", " ", "Player Information", "\n", "\n", "*", "*", "Name", "*", "*", ":", " ">>
                 \o RowText(df, player_info, "name_first", <<"Unknown">>) \o <<" ">>
                 \o RowText(df, player_info, "name_last", <<"Unknown">>)
                 \o <<"\n", "*", "*", "MLB Career", "*", "*", ":", " ">>
                 \o RowText(df, player_info, "mlb_played_first", <<"Unknown">>) \o <<" ", "-", " ">>
                 \o RowText(df, player_info, "mlb_played_last", <<"Unknown">>)
                 \o <<"\n", "\n", "#", "#", " ", "Player IDs", ":", "\n">>
                 \o field("MLB AM ID", "key_mlbam", <<"N/A">>)
                 \o field("FanGraphs ID", "key_fangraphs", <<"N/A">>)
                 \o field("Baseball Reference ID", "key_bbref", <<"N/A">>)
                 \o <<"\n", "#", "#", " ", "Additional Details", ":", "\n">>
                 \o Concat([i \in 1..Len(others) |->
                              <<"-", " ", "*", "*">> \o ColumnTitle(others[i]) \o <<"*", "*", ":", " ">>
                              \o PyToStr(player_info[others[i]]) \o <<"\n">>]))

\* the table with the column years_played, last - first + 1, appended
WithYearsPlayed(df) ==
    DataFrame(Append(df.columns, "years_played"),
              [i \in 1..Len(df.rows) |->
                  df.rows[i] @@ ("years_played" :>
                      PyInt(df.rows[i]["mlb_played_last"].v - df.rows[i]["mlb_played_first"].v + 1))])

search_players_fuzzy(a, year) ==
    LET search_term == sanitize_input(a.search_term)
        min_years_played == validate_numeric_range(a.min_years_played, PyInt(0), PyInt(30),
                                                   <<"min_years_played">>)
        limit == validate_page_size(a.limit, 100)
    IN  IF ~a.ctx THEN BodyRaise(NoContext)
        ELSE IF StrLen(search_term) < 2
        THEN BodyRaise(Raise("ValidationError", <<"Search term must be at least 2 characters">>))
        ELSE IF ~min_years_played.ok THEN BodyRaise(min_years_played)
        ELSE IF ~limit.ok THEN BodyRaise(limit)
        ELSE BodyCall("playerid_lookup",
                      [search_term |-> search_term, min_years_played |-> min_years_played.v,
                       limit |-> limit.v.v])

search_players_fuzzy_returned(a, l, df) ==
    LET all_years == WithYearsPlayed(df)
        filtered ==
            IF l.min_years_played.v > 0
            THEN DataFrame(all_years.columns,
                           SelectSeq(all_years.rows,
                                     LAMBDA r : 10 * r["years_played"].v >= l.min_years_played.v))
            ELSE df
        shown == HeadRows(filtered, l.limit)
        title == <<"Fuzzy Search Results for ", "'">> \o l.search_term \o <<"'">>
    IN  IF IsEmpty(df)
        THEN BodyReturn(CrossMark \o <<" ", "No players found matching ", "'">> \o l.search_term
                        \o <<"'">>)
        ELSE IF l.min_years_played.v > 0 /\ ~HasColumn(df, "mlb_played_last")
        THEN BodyRaise(KeyError("mlb_played_last"))
        ELSE IF l.min_years_played.v > 0 /\ ~HasColumn(df, "mlb_played_first")
        THEN BodyRaise(KeyError("mlb_played_first"))
        ELSE IF IsEmpty(filtered)
        THEN BodyReturn(CrossMark \o <<" ", "No players found matching ", "'">> \o l.search_term
                        \o <<"'", " with at least ">> \o PyToStr(l.min_years_played)
                        \o <<" years played">>)
        ELSE BodyReturn(
                 format_dataframe_as_markdown(shown, title)
                 \o <<"\n", "\n", "#", "#", "#", " ", "Search Insights", "\n">>
                 \o create_summary_insights(
                        shown, <<"Searched for players matching ", "'">> \o l.search_term \o <<"'">>))

get_player_career_span(a, year) ==
    LET clean_name == validate_player_name(a.player_name)
    IN  IF ~a.ctx THEN BodyRaise(NoContext)
        ELSE IF ~clean_name.ok THEN BodyRaise(clean_name)
        ELSE BodyCall("playerid_lookup", [clean_name |-> clean_name.v.v])

get_player_career_span_returned(a, l, df) ==
    LET player_info == df.rows[1]
        others == SubSeq(df.rows, 2, IF Len(df.rows) > 4 THEN 4 ELSE Len(df.rows))
        alternatives_note ==
            IF Len(df.rows) > 1
            THEN <<"\n", "\n", "*", "Note", ":", " ", "Multiple players found. Also showing", ":", " ">>
                 \o JoinWith(<<",", " ">>,
                             [i \in 1..Len(others) |->
                                 others[i]["name_first"].v \o <<" ">> \o others[i]["name_last"].v])
                 \o <<"*">>
            ELSE <<>>
        known == HasColumn(df, "mlb_played_first") /\ HasColumn(df, "mlb_played_last")
        first_year == RowText(df, player_info, "mlb_played_first", <<"Unknown">>)
        last_year == RowText(df, player_info, "mlb_played_last", <<"Unknown">>)
        career_length ==
            IntToStr(player_info["mlb_played_last"].v - player_info["mlb_played_first"].v + 1)
        field(label, text) == <<"-", " ", "*", "*", label, "*", "*", ":", " ">> \o text \o <<"\n">>
    IN  IF IsEmpty(df)
        THEN BodyReturn(CrossMark \o <<" ", "No players found for ", "'">> \o l.clean_name \o <<"'">>)
        ELSE BodyReturn(
                 <<"#", " ", "Career Information", ":", " ">>
                 \o RowText(df, player_info, "name_first", <<>>) \o <<" ">>
                 \o RowText(df, player_info, "name_last", <<>>)
                 \o <<"\n", "\n", "#", "#", " ", "Career Span", "\n", "*", "*", "MLB Career", "*", "*", ":", " ">>
                 \o first_year \o <<" ", "-", " ">> \o last_year
                 \o (IF known THEN <<" ", "(">> \o career_length \o <<" seasons", ")">> ELSE <<>>)
                 \o <<"\n", "\n", "#", "#", " ", "Player Identifiers", "\n">>
                 \o field("MLB AM ID", RowText(df, player_info, "key_mlbam", <<"N/A">>))
                 \o field("FanGraphs ID", RowText(df, player_info, "key_fangraphs", <<"N/A">>))
                 \o field("Baseball Reference ID", RowText(df, player_info, "key_bbref", <<"N/A">>))
                 \o <<"\n", "#", "#", " ", "Quick Facts", "\n">>
                 \o field("Birth Year", RowText(df, player_info, "birth_year", <<"Unknown">>))
                 \o field("Career Started", first_year)
                 \o field("Career Ended", last_year)
                 \o (IF known THEN field("Career Length", career_length \o <<" seasons">>) ELSE <<>>)
                 \o alternatives_note)

-----------------------------------------------------------------------------
(* tools/plotting_tools.py *)

\* str.title() of the words of this model
TitleChunk(c) ==
    CASE c = "single" -> "Single" [] c = "double" -> "Double" [] c = "triple" -> "Triple"
      [] c = "home_run" -> "Home_Run" [] c = "batting" -> "Batting" [] c = "pitching" -> "Pitching"
      [] OTHER -> c

hit_events == {"single", "double", "triple", "home_run"}

RECURSIVE Distinct(_, _)
\* the elements of s in the order of their first occurrence
Distinct(s, seen) ==
    IF s = <<>> THEN <<>>
    ELSE IF Head(s) \in seen THEN Distinct(Tail(s), seen)
    ELSE <<Head(s)>> \o Distinct(Tail(s), seen \cup {Head(s)})

RECURSIVE ByCount(_)
\* entries [key, count] by falling count, equal counts in the order given
ByCount(entries) ==
    IF entries = <<>> THEN <<>>
    ELSE LET i == CHOOSE i \in 1..Len(entries) :
                     /\ \A j \in 1..Len(entries) : entries[j].count <= entries[i].count
                     /\ \A j \in 1..(i - 1) : entries[j].count < entries[i].count
         IN  <<entries[i]>>
             \o ByCount(SubSeq(entries, 1, i - 1) \o SubSeq(entries, i + 1, Len(entries)))

\* hits_df['events'].value_counts()
value_counts(hits_df) ==
    LET events == [i \in 1..Len(hits_df.rows) |-> hits_df.rows[i]["events"]]
        kinds == Distinct(events, {})
    IN  ByCount([i \in 1..Len(kinds) |->
                   [key |-> kinds[i],
                    count |-> Cardinality({j \in 1..Len(events) : events[j] = kinds[i]})]])

\* f"{count / total * 100:.1f}"
Percentage(count, total) == Fixed1(RoundHalfEven(1000 * count, total))

\* home plate's x-coordinate and the half width of center field, in hundredths
center_x == 12542
CenterHalfWidth == 1500

\* the number of hits of one field, and its line
FieldLine(hits_df, label, InField(_)) ==
    LET n == Cardinality({i \in 1..Len(hits_df.rows) : InField(10 * hits_df.rows[i]["hc_x"].v)})
    IN  PyStr(<<"-", " ", label, " ", "Field", ":", " ">> \o IntToStr(n) \o <<" ", "(">>
              \o Percentage(n, Len(hits_df.rows)) \o <<"%", ")">>)

calculate_spray_insights_structured(hits_df, player_name, season) ==
    LET hit_counts == value_counts(hits_df)
        total_hits == Len(hits_df.rows)
        counts ==
            << PyStr(ChartGlyph \o <<" ", "*", "*", "Total", " ", "Hits", " ", "Tracked", ":", " ">>
                     \o IntToStr(total_hits) \o <<"*", "*">>) >>
            \o [i \in 1..Len(hit_counts) |->
                  PyStr(<<"-", " ", TitleChunk(hit_counts[i].key), ":", " ">>
                        \o IntToStr(hit_counts[i].count) \o <<" ", "(">>
                        \o Percentage(hit_counts[i].count, total_hits) \o <<"%", ")">>)]
        fields ==
            IF HasColumn(hits_df, "hc_x")
            THEN << PyStr(TargetGlyph \o <<" ", "*", "*", "Field Distribution", ":", "*", "*">>),
                    FieldLine(hits_df, "Left", LAMBDA x : x > center_x + CenterHalfWidth),
                    FieldLine(hits_df, "Center",
                              LAMBDA x : x - center_x <= CenterHalfWidth
                                         /\ center_x - x <= CenterHalfWidth),
                    FieldLine(hits_df, "Right", LAMBDA x : x < center_x - CenterHalfWidth) >>
            ELSE <<>>
        velocity ==
            IF HasColumn(hits_df, "launch_speed")
            THEN << PyStr(BoltGlyph \o <<" ", "*", "*", "Exit Velocity", ":", "*", "*">>),
                    PyStr(<<"-", " ", "Average", ":", " ">>
                          \o Fixed1(RoundHalfEven(SumTenths(hits_df.rows, "launch_speed"), total_hits))
                          \o <<" ", "mph">>),
                    PyStr(<<"-", " ", "Maximum", ":", " ">>
                          \o Fixed1(hits_df.rows[IdxMax(hits_df, "launch_speed")]["launch_speed"].v)
                          \o <<" ", "mph">>) >>
            ELSE <<>>
    IN  PyList(counts \o fields \o velocity)

create_spray_table_data(hits_df) ==
    LET hit_counts == value_counts(hits_df)
        total_hits == Len(hits_df.rows)
    IN  PyList(<< PyStr(<<"|", " ", "Hit Type", " ", "|", " ", "Count", " ", "|", " ", "Percentage", " ", "|">>),
                  PyStr(<<"|", " ", "-", "-", "-", " ", "|", " ", "-", "-", "-", " ", "|", " ", "-", "-", "-", " ", "|">>) >>
               \o [i \in 1..Len(hit_counts) |->
                     PyStr(<<"|", " ", TitleChunk(hit_counts[i].key), " ", "|", " ">>
                           \o IntToStr(hit_counts[i].count) \o <<" ", "|", " ">>
                           \o Percentage(hit_counts[i].count, total_hits) \o <<"%", " ", "|">>)]
               \o << PyStr(<<"|", " ", "*", "*", "Total", "*", "*", " ", "|", " ", "*", "*">>
                           \o IntToStr(total_hits)
                           \o <<"*", "*", " ", "|", " ", "*", "*", "100.0", "%", "*", "*", " ", "|">>) >>)

\* f"baseball_chart_{uuid.uuid4().hex[:8]}"
ArtifactId(hex) == <<"baseball_chart_", hex>>

\* the end of a chart handler that returns the artifact without the marker before it
ChartResponseUnmarked(type, title, insights, tabular_data, rendered) ==
    LET img_base64 == encode_image_to_base64(rendered.image)
        chart_data == [type |-> PyStr(<<type>>), title |-> PyStr(title),
                       image_data |-> PyStr(img_base64), insights |-> insights,
                       tabular_data |-> tabular_data]
        artifact_data == create_chart_artifact(chart_data, TRUE, ArtifactId(rendered.uuid))
    IN  IF ~artifact_data.ok THEN BodyRaise(artifact_data)
        ELSE BodyReturnChart(ReprArtifact(artifact_data.v), chart_data, artifact_data.v)

\* the end of both chart handlers: encode the image, build the chart data and the artifact
ChartResponse(type, title, insights, tabular_data, rendered) ==
    LET img_base64 == encode_image_to_base64(rendered.image)
        chart_data == [type |-> PyStr(<<type>>), title |-> PyStr(title),
                       image_data |-> PyStr(img_base64), insights |-> insights,
                       tabular_data |-> tabular_data]
        artifact_data == create_chart_artifact(chart_data, TRUE, ArtifactId(rendered.uuid))
    IN  IF ~artifact_data.ok THEN BodyRaise(artifact_data)
        ELSE BodyReturnChart(ChartMarker \o ReprArtifact(artifact_data.v), chart_data, artifact_data.v)

valid_game_types == { PyStr(<<"regular">>), PyStr(<<"postseason">>), PyStr(<<"all">>) }
valid_chart_types == { PyStr(<<"standard">>), PyStr(<<"heat_map">>), PyStr(<<"overlay">>) }

create_spray_chart(a, year) ==
    LET clean_name == validate_player_name(a.player_name)
        season == validate_season(a.season, year)
    IN  IF ~a.ctx THEN BodyRaise(NoContext)
        ELSE IF ~clean_name.ok THEN BodyRaise(clean_name)
        ELSE IF ~season.ok THEN BodyRaise(season)
        ELSE IF a.game_type \notin valid_game_types
        THEN BodyRaise(Raise("ValidationError",
                             <<"Invalid game_type. Valid options", ":", " ",
                               "regular", ",", " ", "postseason", ",", " ", "all">>))
        ELSE IF a.chart_type \notin valid_chart_types
        THEN BodyRaise(Raise("ValidationError",
                             <<"Invalid chart_type. Valid options", ":", " ",
                               "standard", ",", " ", "heat_map", ",", " ", "overlay">>))
        ELSE BodyCall("playerid_lookup",
                      [stage |-> "lookup", clean_name |-> clean_name.v.v, season |-> season.v.v])

create_spray_chart_returned(a, l, df) ==
    LET season == IntToStr(l.season)
        hits_df == DataFrame(df.columns, SelectSeq(df.rows, LAMBDA r : r["events"] \in hit_events))
    IN  IF l.stage = "lookup"
        THEN (IF IsEmpty(df)
              THEN BodyReturn(PlottingCrossMark \o <<" ", "Player ", "'">> \o l.clean_name
                              \o <<"'", " not found">>)
              ELSE IF ~Truthy(RowGet(df, df.rows[1], "key_mlbam"))
              THEN BodyReturn(PlottingCrossMark \o <<" ", "No MLB AM ID found for ">> \o l.clean_name
                              \o <<" ", "(required for Statcast data)">>)
              ELSE BodyCall("statcast_batter", [l EXCEPT !.stage = "statcast"]))
        ELSE (IF IsEmpty(df)
              THEN BodyReturn(PlottingCrossMark \o <<" ", "No Statcast data found for ">>
                              \o l.clean_name \o <<" in ">> \o season)
              ELSE IF IsEmpty(hits_df)
              THEN BodyReturn(PlottingCrossMark \o <<" ", "No hit data found for ">>
                              \o l.clean_name \o <<" in ">> \o season)
              ELSE BodyRender([stage |-> "render", clean_name |-> l.clean_name,
                               season |-> l.season, hits_df |-> hits_df]))

\* the same body from the saved figure
create_spray_chart_rendered(a, l, rendered) ==
    ChartResponse("spray_chart",
                  l.clean_name \o <<" ", "-", " ">> \o IntToStr(l.season) \o <<" ", "Spray Chart">>,
                  calculate_spray_insights_structured(l.hits_df, l.clean_name, l.season),
                  create_spray_table_data(l.hits_df), rendered)

TrophyGlyph == <<"U+00F0", "U+0178", "U+2020">>

\* the metrics of which the larger value leads also for pitchers
HigherIsBetter == {"K/9", "WAR", "K%"}

\* the players of player_stats that have the metric
WithMetric(player_stats, metric) ==
    SelectSeq(player_stats, LAMBDA ps : \E i \in 1..Len(ps.columns) : ps.columns[i] = metric)

\* np.argmax(values) / np.argmin(values): the first of the best
ArgBest(having, metric, highest) ==
    CHOOSE i \in 1..Len(having) :
        /\ \A j \in 1..Len(having) :
              IF highest THEN Tenths(having[j].data[metric]) <= Tenths(having[i].data[metric])
              ELSE Tenths(having[j].data[metric]) >= Tenths(having[i].data[metric])
        /\ \A j \in 1..(i - 1) : Tenths(having[j].data[metric]) # Tenths(having[i].data[metric])

\* the leader line of one metric, or nothing when no player has the metric
LeaderLine(player_stats, metric, stat_type) ==
    LET having == WithMetric(player_stats, metric)
        highest == stat_type = "batting" \/ metric \in HigherIsBetter
        best == having[ArgBest(having, metric, highest)]
    IN  IF having = <<>> THEN <<>>
        ELSE << PyStr(<<"-", " ">> \o ColumnText(metric)
                      \o <<" ", "(", IF highest THEN "highest" ELSE "lowest", ")", ":", " ">>
                      \o best.name \o <<" ", "(">> \o PyToStr(best.data[metric]) \o <<")">>) >>

create_comparison_insights_structured(player_stats, metrics, stat_type) ==
    PyList(
        << PyStr(ChartGlyph \o <<" ", "*", "*", TitleChunk(stat_type), " ", "Comparison Summary",
                                  "*", "*">>),
           PyStr(<<"-", " ", "Players compared", ":", " ">> \o IntToStr(Len(player_stats))),
           PyStr(<<"-", " ", "Metrics analyzed", ":", " ">>
                 \o JoinWith(<<",", " ">>, [i \in 1..Len(metrics) |-> ColumnText(metrics[i])])),
           PyStr(TrophyGlyph \o <<" ", "*", "*", "Metric Leaders", ":", "*", "*">>) >>
        \o Concat([i \in 1..Len(metrics) |-> LeaderLine(player_stats, metrics[i], stat_type)]))

\* one cell of the comparison table
TableCell(ps, metric) ==
    IF \E i \in 1..Len(ps.columns) : ps.columns[i] = metric
    THEN (IF ps.data[metric].t = "float"
          THEN <<" ">> \o Fixed3(100 * ps.data[metric].v) \o <<" ", "|">>
          ELSE <<" ">> \o PyToStr(ps.data[metric]) \o <<" ", "|">>)
    ELSE <<" ", "N/A", " ", "|">>

create_comparison_table_data(player_stats, metrics) ==
    PyList(
        << PyStr(<<"|", " ", "Player", " ", "|">>
                 \o Concat([i \in 1..Len(metrics) |-> <<" ">> \o ColumnText(metrics[i]) \o <<" ", "|">>])),
           PyStr(<<"|", " ", "-", "-", "-", " ", "|">>
                 \o Concat([i \in 1..Len(metrics) |-> <<" ", "-", "-", "-", " ", "|">>])) >>
        \o [p \in 1..Len(player_stats) |->
              PyStr(<<"|", " ">> \o player_stats[p].name \o <<" ", "|">>
                    \o Concat([i \in 1..Len(metrics) |-> TableCell(player_stats[p], metrics[i])]))])

MaxPlayers == 4
MaxMetrics == 4

DefaultBattingMetrics == <<"AVG", "OBP", "SLG", "HR">>
DefaultPitchingMetrics == <<"ERA", "WHIP", "K/9", "WAR">>

\* the same loop, with a chart for one player found
ComparePlayersOneFound(a, l, i) ==
    LET clean_name == validate_player_name(a.players.v[i])
    IN  IF i <= Len(a.players.v)
        THEN (IF ~clean_name.ok THEN BodyRaise(clean_name)
              ELSE BodyCall(IF a.stat_type.v = <<"batting">> THEN "batting_stats" ELSE "pitching_stats",
                            [l EXCEPT !.i = i, !.clean_name = clean_name.v.v]))
        ELSE IF Len(l.player_stats) < 1
        THEN BodyReturn(PlottingCrossMark \o <<" ", "Could not find sufficient stats for comparison in ">>
                        \o IntToStr(l.season))
        ELSE IF l.metrics = <<>>
        THEN BodyRaise(Raise("ValueError",
                             <<"Number of columns must be a positive integer, not 0">>))
        ELSE BodyRender([l EXCEPT !.stage = "render"])

\* the loop over the players from the i-th on, and what follows the loop
ComparePlayers(a, l, i) ==
    LET clean_name == validate_player_name(a.players.v[i])
    IN  IF i <= Len(a.players.v)
        THEN (IF ~clean_name.ok THEN BodyRaise(clean_name)
              ELSE BodyCall(IF a.stat_type.v = <<"batting">> THEN "batting_stats" ELSE "pitching_stats",
                            [l EXCEPT !.i = i, !.clean_name = clean_name.v.v]))
        ELSE IF Len(l.player_stats) < 2
        THEN BodyReturn(PlottingCrossMark \o <<" ", "Could not find sufficient stats for comparison in ">>
                        \o IntToStr(l.season))
        ELSE IF l.metrics = <<>>
        THEN BodyRaise(Raise("ValueError",
                             <<"Number of columns must be a positive integer, not 0">>))
        ELSE BodyRender([l EXCEPT !.stage = "render"])

create_stat_comparison_chart(a, year) ==
    LET season == validate_season(a.season, year)
        metrics == IF a.metrics = PyNone
                   THEN (IF a.stat_type.v = <<"batting">> THEN DefaultBattingMetrics
                         ELSE DefaultPitchingMetrics)
                   ELSE a.metrics.v
    IN  IF ~a.ctx THEN BodyRaise(NoContext)
        ELSE IF ~Truthy(a.players) \/ Len(a.players.v) < 2
        THEN BodyRaise(Raise("ValidationError", <<"Need at least 2 players for comparison">>))
        ELSE IF Len(a.players.v) > MaxPlayers
        THEN BodyRaise(Raise("ValidationError",
                             <<"Maximum 4 players allowed for compact comparison">>))
        ELSE IF ~season.ok THEN BodyRaise(season)
        ELSE IF a.stat_type \notin {PyStr(<<"batting">>), PyStr(<<"pitching">>)}
        THEN BodyRaise(Raise("ValidationError",
                             <<"Invalid stat_type. Valid options", ":", " ",
                               "batting", ",", " ", "pitching">>))
        ELSE ComparePlayers(a, [stage |-> "stats", i |-> 0, clean_name |-> <<>>,
                                season |-> season.v.v, player_stats |-> <<>>,
                                metrics |-> IF Len(metrics) > MaxMetrics
                                            THEN SubSeq(metrics, 1, MaxMetrics) ELSE metrics],
                            1)

create_stat_comparison_chart_returned(a, l, stats_df) ==
    LET player_row == RowsNamed(stats_df, l.clean_name)
        player_stats ==
            IF IsEmpty(player_row) THEN l.player_stats
            ELSE Append(l.player_stats,
                        [name |-> l.clean_name, columns |-> stats_df.columns,
                         data |-> player_row.rows[1]])
    IN  IF ~HasColumn(stats_df, "Name") THEN BodyRaise(KeyError("Name"))
        ELSE ComparePlayers(a, [l EXCEPT !.player_stats = player_stats], l.i + 1)

\* the same body from the saved figure
create_stat_comparison_chart_rendered(a, l, rendered) ==
    ChartResponse("comparison_chart",
                  IntToStr(l.season) \o <<" ", TitleChunk(a.stat_type.v[1]), " ", "Comparison">>,
                  create_comparison_insights_structured(l.player_stats, l.metrics, a.stat_type.v[1]),
                  create_comparison_table_data(l.player_stats, l.metrics), rendered)

-----------------------------------------------------------------------------
(* The ten handlers by name *)

PlayerTools ==
    {"lookup_player_id", "reverse_lookup_player", "search_players_fuzzy", "get_player_career_span"}
StatsTools ==
    {"get_batting_stats", "get_pitching_stats", "get_player_batting_stats_range",
     "get_team_batting_stats"}
PlottingTools == {"create_spray_chart", "create_stat_comparison_chart"}
Handlers == PlayerTools \cup StatsTools \cup PlottingTools

\* the failure indicator of the handler's module
Glyph(h) == IF h \in PlottingTools THEN PlottingCrossMark ELSE CrossMark

\* the text of the handler's second except clause
Label(h) ==
    CASE h = "lookup_player_id" -> <<"Error looking up player">>
      [] h = "reverse_lookup_player" -> <<"Error performing reverse lookup">>
      [] h = "search_players_fuzzy" -> <<"Error searching players">>
      [] h = "get_player_career_span" -> <<"Error getting career information">>
      [] h = "get_batting_stats" -> <<"Error retrieving batting statistics">>
      [] h = "get_pitching_stats" -> <<"Error retrieving pitching statistics">>
      [] h = "get_player_batting_stats_range" -> <<"Error retrieving player batting statistics">>
      [] h = "get_team_batting_stats" -> <<"Error retrieving team batting statistics">>
      [] h = "create_spray_chart" -> <<"Error creating spray chart">>
      [] h = "create_stat_comparison_chart" -> <<"Error creating comparison chart">>

\* the handler's body from the table the external source returned
Returned(h, a, l, df) ==
    CASE h = "lookup_player_id" -> lookup_player_id_returned(a, l, df)
      [] h = "reverse_lookup_player" -> reverse_lookup_player_returned(a, l, df)
      [] h = "search_players_fuzzy" -> search_players_fuzzy_returned(a, l, df)
      [] h = "get_player_career_span" -> get_player_career_span_returned(a, l, df)
      [] h = "get_batting_stats" -> get_batting_stats_returned(a, l, df)
      [] h = "get_pitching_stats" -> get_pitching_stats_returned(a, l, df)
      [] h = "get_player_batting_stats_range" -> get_player_batting_stats_range_returned(a, l, df)
      [] h = "get_team_batting_stats" -> get_team_batting_stats_returned(a, l, df)
      [] h = "create_spray_chart" -> create_spray_chart_returned(a, l, df)
      [] h = "create_stat_comparison_chart" -> create_stat_comparison_chart_returned(a, l, df)

\* the handler's body from the exception e of the external source: only the
\* two season handlers have a try statement around the call
Raised(h, e) ==
    CASE h = "get_batting_stats" -> SeasonStatsFetchFailed(BattingStats, e)
      [] h = "get_pitching_stats" -> SeasonStatsFetchFailed(PitchingStats, e)
      [] OTHER -> BodyRaise(e)

\* the chart handler's body from the saved figure
Rendered(h, a, l, rendered) ==
    IF h = "create_spray_chart" THEN create_spray_chart_rendered(a, l, rendered)
    ELSE create_stat_comparison_chart_rendered(a, l, rendered)

-----------------------------------------------------------------------------
(* The arguments the callers pass *)

NameInputs ==
    { PyStr(PlayerNames[1]), PyStr(PlayerNames[3]), PyStr(<<" ", "Al", " ", "Bo", " ">>),
      PyStr(<<"Mike", "\t", "Trout">>), PyStr(<<"Total", " ", "Hits">>),
      PyStr(<<"x", "1">>), PyStr(<<>>), PyNone }

SeasonInputs(year) ==
    { PyInt(2024), PyInt(MinSeason - 1), PyInt(year + 2), PyStr(<<"2", "0", "2", "4">>),
      PyStr(<<"x">>), PyNone }

QualInputs ==
    { PyInt(50), PyInt(0), PyInt(700), PyInt(701), PyInt(-1), PyFloat(125),
      PyStr(<<"5", "0">>), PyStr(<<"a", "b", "c">>) }

LeagueInputs == { PyStr(<<"all">>), PyStr(<<"AL">>), PyStr(<<"xx">>), PyNone }

\* the calls that differ from the call base in at most one argument, which
\* takes a value of choices
OneAtATime(base, choices) ==
    {base} \cup UNION { { [base EXCEPT ![k] = v] : v \in choices[k] } : k \in DOMAIN choices }

SeasonStatsInputs(year) ==
    OneAtATime([season |-> PyInt(2024), qual |-> PyInt(50), league |-> PyStr(<<"all">>),
                stat_columns |-> <<"standard">>, ctx |-> TRUE],
               [season |-> SeasonInputs(year), qual |-> QualInputs, league |-> LeagueInputs,
                stat_columns |-> {<<"standard">>, <<"advanced">>}, ctx |-> BOOLEAN])

StatsRangeInputs(year) ==
    OneAtATime([start_season |-> PyInt(2023), end_season |-> PyInt(2024),
                player_name |-> PyStr(PlayerNames[1]), ctx |-> TRUE],
               [start_season |-> {PyInt(2024), PyInt(2025), PyInt(MinSeason - 1)},
                end_season |-> {PyInt(2023), PyInt(year + 2)},
                player_name |-> NameInputs, ctx |-> BOOLEAN])

TeamStatsInputs(year) ==
    OneAtATime([season |-> PyInt(2024), team |-> PyNone, league |-> PyStr(<<"all">>), ctx |-> TRUE],
               [season |-> SeasonInputs(year),
                team |-> { PyStr(<<>>), PyStr(<<"bos">>), PyStr(<<" ", "Bos">>), PyStr(<<"NYY">>),
                           PyStr(<<"xyz">>), PyInt(5) },
                league |-> LeagueInputs, ctx |-> BOOLEAN])

LookupInputs ==
    OneAtATime([player_name |-> PyStr(PlayerNames[1]), limit |-> PyInt(10), ctx |-> TRUE],
               [player_name |-> NameInputs \cup {PyStr(<<"Ken", " ", "Griffey", " ", "jr">>)},
                limit |-> { PyInt(2), PyInt(1), PyInt(0), PyInt(50), PyInt(51), PyStr(<<"x">>) },
                ctx |-> BOOLEAN])

ReverseLookupInputs ==
    OneAtATime([player_id |-> PyInt(545361), id_type |-> PyStr(<<"mlbam">>), ctx |-> TRUE],
               [player_id |-> { PyStr(<<"troutmi01">>), PyStr(<<>>), PyInt(0), PyNone },
                id_type |-> { PyStr(<<" ", "MLBAM">>), PyStr(<<"bbref">>), PyStr(<<"espn">>), PyNone },
                ctx |-> BOOLEAN])
    \cup {[player_id |-> PyStr(<<"troutmi01">>), id_type |-> PyStr(<<"bbref">>), ctx |-> TRUE]}

SearchInputs ==
    OneAtATime([search_term |-> PyStr(<<"Trout">>), min_years_played |-> PyInt(1),
                limit |-> PyInt(20), ctx |-> TRUE],
               [search_term |-> { PyStr(<<"O", "'", "Neil">>), PyStr(<<"<", "a", ">", ";">>),
                                  PyStr(<<"a">>), PyInt(7), PyNone },
                min_years_played |-> { PyInt(0), PyInt(5), PyInt(31), PyStr(<<"x">>) },
                limit |-> { PyInt(1), PyInt(101) }, ctx |-> BOOLEAN])

CareerSpanInputs == [player_name : NameInputs, ctx : BOOLEAN]

SprayChartInputs(year) ==
    OneAtATime([player_name |-> PyStr(PlayerNames[1]), season |-> PyInt(2024),
                game_type |-> PyStr(<<"regular">>), chart_type |-> PyStr(<<"standard">>),
                ctx |-> TRUE],
               [player_name |-> NameInputs, season |-> {PyInt(MinSeason - 1), PyInt(year + 2)},
                game_type |-> {PyStr(<<"playoffs">>)},
                chart_type |-> {PyStr(<<"heat_map">>), PyStr(<<"pie">>)}, ctx |-> BOOLEAN])

PlayersInputs ==
    { PyNone, PyList(<<>>), PyList(<<PyStr(PlayerNames[1])>>),
      PyList(<<PyStr(PlayerNames[2]), PyStr(<<"Total", " ", "Hits">>)>>),
      PyList(<<PyStr(PlayerNames[1]), PyStr(<<"x", "1">>)>>),
      PyList(<<PyStr(<<"x", "1">>), PyStr(PlayerNames[1])>>),
      PyList(<<PyStr(PlayerNames[1]), PyStr(PlayerNames[3]), PyStr(PlayerNames[2])>>),
      PyList([i \in 1..(MaxPlayers + 1) |-> PyStr(PlayerNames[1])]) }

MetricsInputs ==
    { PyList(<<>>), PyList(<<"HR">>), PyList(<<"K%", "CHART_ARTIFACT:">>),
      PyList(<<"AVG", "OBP", "SLG", "HR", "WAR">>), PyList(<<"Average: mph">>) }

ComparisonInputs(year) ==
    OneAtATime([players |-> PyList(<<PyStr(PlayerNames[1]), PyStr(PlayerNames[2])>>),
                season |-> PyInt(2024), stat_type |-> PyStr(<<"batting">>), metrics |-> PyNone,
                ctx |-> TRUE],
               [players |-> PlayersInputs, season |-> {PyInt(MinSeason - 1), PyInt(year + 2)},
                stat_type |-> {PyStr(<<"pitching">>), PyStr(<<"fielding">>)},
                metrics |-> MetricsInputs, ctx |-> BOOLEAN])
    \cup {[players |-> PyList(<<PyStr(PlayerNames[1]), PyStr(PlayerNames[2])>>),
           season |-> PyInt(2024), stat_type |-> PyStr(<<"pitching">>),
           metrics |-> PyList(<<"K%", "CHART_ARTIFACT:">>), ctx |-> TRUE]}

-----------------------------------------------------------------------------
(* The state machine: one invocation at a time *)

\* Validator.__init__ and DataProcessor.__init__
valid_positions == {"C", "1B", "2B", "3B", "SS", "LF", "CF", "RF", "DH", "P"}
valid_stat_sources == {"fangraphs", "baseball_reference", "bref", "fg"}

team_abbreviations ==
    [c \in valid_teams |->
        CASE c = "LAA" -> "Los Angeles Angels" [] c = "HOU" -> "Houston Astros"
          [] c = "OAK" -> "Oakland Athletics" [] c = "TOR" -> "Toronto Blue Jays"
          [] c = "ATL" -> "Atlanta Braves" [] c = "MIL" -> "Milwaukee Brewers"
          [] c = "STL" -> "St. Louis Cardinals" [] c = "CHC" -> "Chicago Cubs"
          [] c = "ARI" -> "Arizona Diamondbacks" [] c = "LAD" -> "Los Angeles Dodgers"
          [] c = "SF" -> "San Francisco Giants" [] c = "CLE" -> "Cleveland Guardians"
          [] c = "SEA" -> "Seattle Mariners" [] c = "MIA" -> "Miami Marlins"
          [] c = "NYM" -> "New York Mets" [] c = "WSH" -> "Washington Nationals"
          [] c = "BAL" -> "Baltimore Orioles" [] c = "SD" -> "San Diego Padres"
          [] c = "PHI" -> "Philadelphia Phillies" [] c = "PIT" -> "Pittsburgh Pirates"
          [] c = "TEX" -> "Texas Rangers" [] c = "TB" -> "Tampa Bay Rays"
          [] c = "BOS" -> "Boston Red Sox" [] c = "CIN" -> "Cincinnati Reds"
          [] c = "COL" -> "Colorado Rockies" [] c = "KC" -> "Kansas City Royals"
          [] c = "DET" -> "Detroit Tigers" [] c = "MIN" -> "Minnesota Twins"
          [] c = "CWS" -> "Chicago White Sox" [] c = "NYY" -> "New York Yankees"]

\* the context app_lifespan builds: the cache is a dict, held as the set of its keys
AppContext ==
    [validator |-> [valid_teams |-> valid_teams, valid_positions |-> valid_positions,
                    valid_stat_sources |-> valid_stat_sources],
     data_processor |-> [team_abbreviations |-> team_abbreviations],
     cache |-> {}]

NoRet == Ok(PyNone)
NoLoc == [fn |-> "none"]
NoArgs == [none |-> TRUE]

\* no call came before
NoEarlier == [called |-> FALSE]

Init ==
    /\ current_year = FirstYear
    /\ op = "none"
    /\ args = NoArgs
    /\ pc = "idle"
    /\ loc = NoLoc
    /\ ext = <<>>
    /\ ret = NoRet
    /\ errlog = 0
    /\ caught = NoExc
    /\ made = NoChart
    /\ processed = PyNone
    /\ issued = {}
    /\ lifespan_context = AppContext
    /\ lifespan = "running"
    /\ earlier = NoEarlier

\* no operation is in progress
Free == pc = "idle" /\ lifespan = "running"

\* the handler h has come to r: it waits for a call, or it is done
Settle(h, r) ==
    IF r.k \in {"call", "render"}
    THEN /\ pc' = IF r.k = "call" THEN "await" ELSE "render"
         /\ loc' = [fn |-> IF r.k = "call" THEN r.fn ELSE "savefig", l |-> r.loc]
         /\ ret' = NoRet
         /\ errlog' = 0
         /\ caught' = NoExc
         /\ made' = NoChart
    ELSE LET b == Boundary(Glyph(h), Label(h), r)
         IN  /\ pc' = "done"
             /\ loc' = NoLoc
             /\ ret' = b.ret
             /\ errlog' = b.logs
             /\ caught' = b.caught
             /\ made' = b.made

\* a caller invokes handler h with arguments a, and the body comes to r
Invoke(h, a, r) ==
    /\ Free
    /\ op' = h
    /\ args' = a
    /\ ext' = <<>>
    /\ processed' = PyNone
    /\ Settle(h, r)
    /\ UNCHANGED <<current_year, issued, lifespan_context, lifespan, earlier>>

LookupPlayerId ==
    /\ Free
    /\ \E a \in LookupInputs :
           Invoke("lookup_player_id", a, lookup_player_id(a, current_year))
ReverseLookupPlayer ==
    /\ Free
    /\ \E a \in ReverseLookupInputs :
           Invoke("reverse_lookup_player", a, reverse_lookup_player(a, current_year))
SearchPlayersFuzzy ==
    /\ Free
    /\ \E a \in SearchInputs :
           Invoke("search_players_fuzzy", a, search_players_fuzzy(a, current_year))
GetPlayerCareerSpan ==
    /\ Free
    /\ \E a \in CareerSpanInputs :
           Invoke("get_player_career_span", a, get_player_career_span(a, current_year))
GetBattingStats ==
    /\ Free
    /\ \E a \in SeasonStatsInputs(current_year) :
           Invoke("get_batting_stats", a, get_batting_stats(a, current_year))
GetPitchingStats ==
    /\ Free
    /\ \E a \in SeasonStatsInputs(current_year) :
           Invoke("get_pitching_stats", a, get_pitching_stats(a, current_year))
GetPlayerBattingStatsRange ==
    /\ Free
    /\ \E a \in StatsRangeInputs(current_year) :
           Invoke("get_player_batting_stats_range", a, get_player_batting_stats_range(a, current_year))
GetTeamBattingStats ==
    /\ Free
    /\ \E a \in TeamStatsInputs(current_year) :
           Invoke("get_team_batting_stats", a, get_team_batting_stats(a, current_year))
CreateSprayChart ==
    /\ Free
    /\ \E a \in SprayChartInputs(current_year) :
           Invoke("create_spray_chart", a, create_spray_chart(a, current_year))
CreateStatComparisonChart ==
    /\ Free
    /\ \E a \in ComparisonInputs(current_year) :
           Invoke("create_stat_comparison_chart", a, create_stat_comparison_chart(a, current_year))

\* the handler goes on from the end of the call it waited for, and comes to r
Resume(r) ==
    /\ Settle(op, r)
    /\ UNCHANGED <<current_year, op, args, processed, issued, lifespan_context, lifespan, earlier>>

\* in the record of a call that raised, in the place of the table
NoTable == DataFrame(<<>>, <<>>)

\* the external source returns a table
ExternalReturns ==
    /\ pc = "await"
    /\ \E df \in TablesOf(loc.fn) :
          /\ ext' = Append(ext, [fn |-> loc.fn, raised |-> FALSE, empty |-> IsEmpty(df), table |-> df])
          /\ Resume(Returned(op, args, loc.l, df))

\* a handler that calls again when the external source raises
ExternalRaisesRetried ==
    /\ pc = "await"
    /\ Len(ext) < MaxPlayers
    /\ ext' = Append(ext, [fn |-> loc.fn, raised |-> TRUE, empty |-> FALSE, table |-> NoTable])
    /\ UNCHANGED <<current_year, op, args, pc, loc, ret, errlog, caught, made, processed, issued,
                   lifespan_context, lifespan, earlier>>

\* the external source raises
ExternalRaises ==
    /\ pc = "await"
    /\ \E msg \in UpstreamErrors :
          /\ ext' = Append(ext, [fn |-> loc.fn, raised |-> TRUE, empty |-> FALSE, table |-> NoTable])
          /\ Resume(Raised(op, Raise("HTTPError", msg)))

\* the renderer saves the figure; create_chart_artifact then draws its id
FigureRendered ==
    /\ pc = "render"
    /\ \E o \in {o \in RenderOutcomes : o.ok}, hex \in UuidSamples :
          Resume(Rendered(op, args, loc.l, [image |-> o.v, uuid |-> hex]))
    /\ UNCHANGED ext

\* the renderer raises
RenderingFails ==
    /\ pc = "render"
    /\ \E o \in {o \in RenderOutcomes : ~o.ok} : Resume(BodyRaise(o))
    /\ UNCHANGED ext

\* process_chart_response is applied to the handler's response, the way
\* enhanced_tool_wrapper of server.py applies it
ProcessChartResponse ==
    /\ pc = "done"
    /\ op \in Handlers
    /\ ret.ok
    /\ processed' = process_chart_response(ret.v.v)
    /\ pc' = "processed"
    /\ UNCHANGED <<current_year, op, args, loc, ext, ret, errlog, caught, made, issued,
                   lifespan_context, lifespan, earlier>>

-----------------------------------------------------------------------------
(* Direct calls of the Validator and of the artifact creator *)

\* a call of a function that calls nothing outside: it returns or raises at once
Call(name, a, outcome) ==
    /\ Free
    /\ op' = name
    /\ args' = a
    /\ ret' = outcome
    /\ pc' = "done"
    /\ loc' = NoLoc
    /\ ext' = <<>>
    /\ errlog' = 0
    /\ caught' = NoExc
    /\ made' = NoChart
    /\ processed' = PyNone
    /\ UNCHANGED <<current_year, issued, lifespan_context, lifespan, earlier>>

SeasonCases(year) ==
    { PyInt(y) : y \in ((MinSeason - SeasonMargin)..(MinSeason + SeasonMargin))
                       \cup ((year + 1 - SeasonMargin)..(year + 1 + SeasonMargin)) }
    \cup { PyStr(<<"2", "0", "2", "4">>), PyStr(<<"x">>), PyFloat(20245), PyNone }

ValidateSeason ==
    /\ Free
    /\ \E season \in SeasonCases(current_year) :
           Call("validate_season", [season |-> season], validate_season(season, current_year))

NameAlphabet == {"a", "Bo", " ", "\t", "-", "'", ".", "1"}

NameCases ==
    { PyStr(s) : s \in UNION { [1..n -> NameAlphabet] : n \in 0..MaxNameChunks } }
    \cup { PyStr(PlayerNames[1]), PyStr(<<"Mike", "\t", "Trout">>), PyStr(Repeat("a", MaxNameLen)), PyStr(Repeat("a", MaxNameLen + 1)),
           PyStr(<<" ">> \o Repeat("a", MaxNameLen) \o <<"\n">>), PyInt(12), PyNone }

ValidatePlayerName ==
    /\ Free
    /\ \E name \in NameCases :
           Call("validate_player_name", [name |-> name], validate_player_name(name))

\* a date written in one of the four formats
DateText(dt, fmt) ==
    JoinWith(<<fmt.sep>>,
             [i \in 1..3 |->
                 IF fmt.order[i] = "Y" THEN ZeroPad(NatToStr(dt.y), 4)
                 ELSE ZeroPad(NatToStr(IF fmt.order[i] = "m" THEN dt.m ELSE dt.d), 2)])

DateYears == {999, 1897, 1902, 2015, 2020}
DateMonths == {1, 3}
DateDays == {1, 2, 31}

DateCases ==
    { PyStr(DateText([y |-> y, m |-> m, d |-> d], date_formats[1])) :
          y \in DateYears, m \in DateMonths, d \in DateDays }
    \cup { PyStr(DateText([y |-> 2020, m |-> 1, d |-> 1], date_formats[k])) : k \in 2..4 }
    \cup { PyStr(<<"1", "5", "-", "0", "1", "-", "0", "1">>), PyStr(<<>>), PyNone }

\* the C libraries the interpreter's strftime may rest on
Platforms == {"glibc", "bsd"}

ValidateDateRange ==
    /\ Free
    /\ \E start_date \in DateCases, end_date \in DateCases, libc \in Platforms :
           Call("validate_date_range",
                [start_date |-> start_date, end_date |-> end_date, libc |-> libc],
                validate_date_range(start_date, end_date, libc))

ValidateStatcastParams ==
    /\ Free
    /\ \E start_dt \in DateCases, end_dt \in DateCases, libc \in Platforms :
           Call("validate_statcast_params",
                [start_dt |-> start_dt, end_dt |-> end_dt, libc |-> libc],
                validate_statcast_params(start_dt, end_dt, libc))

\* single dates: those of the ranges, the last days of February, days no month has,
\* a month and a day written without their leading zero, and text that is no date
SingleDateCases ==
    DateCases
    \cup { PyStr(DateText([y |-> y, m |-> 2, d |-> d], date_formats[k])) :
              y \in {2020, 2021}, d \in {28, 29, 30}, k \in 1..4 }
    \cup { PyStr(<<"2", "0", "2", "0", "-", "1", "-", "2">>),
           PyStr(<<"2", "0", "2", "0", "-", "1", "3", "-", "0", "1">>),
           PyStr(<<"2", "0", "2", "0", ".", "0", "1", ".", "0", "1">>),
           PyStr(<<"0", "1", "/", "0", "1", "-", "2", "0", "2", "0">>),
           PyStr(<<"9", "9", "9", "-", "0", "1", "-", "0", "1">>),
           PyStr(<<"x">>), PyInt(20200101) }

ValidateDate ==
    /\ Free
    /\ \E date_str \in SingleDateCases, libc \in Platforms :
           Call("validate_date", [date_str |-> date_str, libc |-> libc],
                validate_date(date_str, libc))

\* team codes as callers write them: every code as it stands, lower and mixed case,
\* padded with white space, unknown codes and values that are no string
TeamCases ==
    { PyStr(<<c>>) : c \in valid_teams }
    \cup { PyStr(<<"bos">>), PyStr(<<"Bos">>), PyStr(<<"nyy">>), PyStr(<<"xyz">>),
           PyStr(<<" ", "bos", "\n">>), PyStr(<<"\t", "SF", " ">>), PyStr(<<"BOS", " ", "NYY">>),
           PyStr(<<"B", "OS">>), PyStr(<<" ">>), PyStr(<<>>), PyInt(5), PyInt(0), PyNone,
           PyList(<<PyStr(<<"BOS">>)>>) }

ValidateTeam ==
    /\ Free
    /\ \E team \in TeamCases :
           Call("validate_team", [team |-> team], validate_team(team))

\* a key the dict does not have
Absent == [t |-> "absent"]
ChartDataOf(f) == [k \in {k \in DOMAIN f : f[k] # Absent} |-> f[k]]

SampleHits == DataFrame(StatcastColumns, <<StatcastRow(1), StatcastRow(3), StatcastRow(5)>>)

\* insight lines of which two give the label Single, and one fits two of the rules
RepeatedLabels ==
    PyList(<< PyStr(<<"-", " ", "Single", ":", " ", "2", " ", "(", "66.7", "%", ")">>),
              PyStr(<<"-", " ", "Left", " ", "Field", ":", " ", "1", " ", "(", "33.3", "%", ")">>),
              PyStr(<<"-", " ", "Single", ":", " ", "1", " ", "(", "50.0", "%", ")">>),
              PyStr(<<"-", " ", "Total", " ", "Hits", ":", " ", "5", " ", "(", "100", "%", ")">>) >>)

ChartDataCases ==
    { ChartDataOf([type |-> PyStr(<<"spray_chart">>), title |-> title,
                   image_data |-> image_data, insights |-> insights]) :
          title \in { Absent, PyStr(PlayerNames[3] \o <<" ", "-", " ", "2", "0", "2", "4", " ", "Spray Chart">>) },
          image_data \in { Absent, PyNone, PyStr(<<>>), PyStr(<<"iVBORw0KGgo">>),
                           PyStr(DataUriPrefix \o <<"iVBORw0KGgo">>), PyInt(5) },
          insights \in { Absent, PyNone, PyList(<<>>), PyList(<<PyInt(3)>>), RepeatedLabels,
                         calculate_spray_insights_structured(SampleHits, PlayerNames[3], 2024) } }

CreateChartArtifact ==
    /\ Free
    /\ \E chart_data \in ChartDataCases, compact \in BOOLEAN, hex \in UuidSamples :
           Call("create_chart_artifact", [chart_data |-> chart_data, compact |-> compact],
                create_chart_artifact(chart_data, compact, ArtifactId(hex)))

\* ---------------------------------------------------------------------------
\* utils/chart_display/chart_processor.py: ChartProcessor

\* re.search(r'# (.+) - (\d+) Spray Chart', output): '.' matches no newline
SprayPatternAt(output, i) ==
    /\ i + 1 <= Len(output) /\ output[i] = "#" /\ output[i + 1] = " "
    /\ \E j \in (i + 3)..Len(output), k \in (i + 3)..Len(output) :
          /\ j + 4 <= k /\ k + 1 <= Len(output)
          /\ \A n \in (i + 2)..(j - 1) : output[n] # "\n"
          /\ output[j] = " " /\ output[j + 1] = "-" /\ output[j + 2] = " "
          /\ \A n \in (j + 3)..(k - 1) : output[n] \in Digits
          /\ output[k] = " " /\ output[k + 1] = "Spray Chart"

\* re.search(r'# (\d+) (Batting|Pitching) Comparison', output)
ComparisonPatternAt(output, i) ==
    /\ i + 1 <= Len(output) /\ output[i] = "#" /\ output[i + 1] = " "
    /\ \E k \in (i + 3)..Len(output) :
          /\ k + 3 <= Len(output)
          /\ \A n \in (i + 2)..(k - 1) : output[n] \in Digits
          /\ output[k] = " " /\ output[k + 1] \in {"Batting", "Pitching"}
          /\ output[k + 2] = " " /\ output[k + 3] = "Comparison"

\* self.chart_patterns, in the order of the dict
chart_patterns == <<"spray_chart", "comparison_chart">>

PatternFound(chart_type, output) ==
    \E i \in 1..Len(output) :
        IF chart_type = "spray_chart" THEN SprayPatternAt(output, i)
        ELSE ComparisonPatternAt(output, i)

\* detect_chart_type with the patterns tried in the other order
detect_chart_type_comparison_first(output) ==
    IF PatternFound("comparison_chart", output) THEN PyStr(<<"comparison_chart">>)
    ELSE IF PatternFound("spray_chart", output) THEN PyStr(<<"spray_chart">>)
    ELSE PyNone

\* the patterns tried in the order of their definition; the first match is returned
detect_chart_type(output) ==
    LET found == {n \in 1..Len(chart_patterns) : PatternFound(chart_patterns[n], output)}
    IN  IF found = {} THEN PyNone
        ELSE PyStr(<<chart_patterns[CHOOSE n \in found : \A m \in found : n <= m]>>)

\* the end of the line that position i is on
LineEnd(output, i) ==
    IF \E n \in i..Len(output) : output[n] = "\n"
    THEN (CHOOSE n \in i..Len(output) :
             output[n] = "\n" /\ \A m \in i..(n - 1) : output[m] # "\n") - 1
    ELSE Len(output)

\* the title cut at its first blank: r'# (\S+)' in the place of r'# (.+)'
TitleMatchFirstWord(output) ==
    LET at == {i \in 1..(Len(output) - 2) :
                  output[i] = "#" /\ output[i + 1] = " " /\ output[i + 2] \notin WhiteSpace}
        i == CHOOSE i \in at : \A j \in at : i <= j
    IN  IF at = {} THEN <<>> ELSE <<output[i + 2]>>

\* re.search(r'# (.+)', output).group(1), or '' without a match
TitleMatch(output) ==
    LET at == {i \in 1..(Len(output) - 2) :
                  output[i] = "#" /\ output[i + 1] = " " /\ output[i + 2] # "\n"}
        i == CHOOSE i \in at : \A j \in at : i <= j
    IN  IF at = {} THEN <<>> ELSE SubSeq(output, i + 2, LineEnd(output, i + 2))

\* the places j where '](data:image/png;base64,' follows a '![' at i and an alt text
\* without a newline, a payload of at least one character and a ')' after it
ImageMatchesAt(output, i) ==
    {j \in (i + 2)..(Len(output) - 6) :
        /\ output[i] = "!" /\ output[i + 1] = "["
        /\ \A n \in (i + 2)..(j - 1) : output[n] # "\n"
        /\ SubSeq(output, j, j + 4) = <<"]", "(">> \o DataUriPrefix
        /\ output[j + 5] # ")"
        /\ \E k \in (j + 6)..Len(output) : output[k] = ")"}

\* re.search(r'!\[.*?\]\(data:image/png;base64,([^)]+)\)', output).group(1), or ''
ImageMatch(output) ==
    LET at == {i \in 1..Len(output) : ImageMatchesAt(output, i) # {}}
        i == CHOOSE i \in at : \A n \in at : i <= n
        j == CHOOSE j \in ImageMatchesAt(output, i) : \A n \in ImageMatchesAt(output, i) : j <= n
        k == CHOOSE k \in (j + 6)..Len(output) :
                 output[k] = ")" /\ \A n \in (j + 6)..(k - 1) : output[n] # ")"
    IN  IF at = {} THEN <<>> ELSE SubSeq(output, j + 5, k - 1)

\* the glyphs chart_processor.py takes for the start of a section
SectionGlyphs == {"U+1F4CA", "U+1F3AF", "U+26A1"}

RECURSIVE SectionLoopDashAlways(_, _, _)
\* the loop without the test of current_section in its second branch
SectionLoopDashAlways(lines, current_section, data) ==
    IF lines = <<>> THEN data
    ELSE LET line == Strip(Head(lines))
         IN  IF line # <<>> /\ (line[1] \in SectionGlyphs \/ line[1] = "-")
             THEN SectionLoopDashAlways(Tail(lines), line,
                                        [data EXCEPT !.insights = Append(@, PyStr(line))])
             ELSE IF "|" \in Range(line) /\ ~(line # <<>> /\ line[1] = "#")
             THEN SectionLoopDashAlways(Tail(lines), current_section,
                                        [data EXCEPT !.tabular_data = Append(@, PyStr(line))])
             ELSE SectionLoopDashAlways(Tail(lines), current_section, data)

RECURSIVE SectionLoopHeadingRows(_, _, _)
\* the loop without the test for a heading in its third branch
SectionLoopHeadingRows(lines, current_section, data) ==
    IF lines = <<>> THEN data
    ELSE LET line == Strip(Head(lines))
         IN  IF line # <<>> /\ line[1] \in SectionGlyphs
             THEN SectionLoopHeadingRows(Tail(lines), line,
                                         [data EXCEPT !.insights = Append(@, PyStr(line))])
             ELSE IF line # <<>> /\ line[1] = "-" /\ current_section # <<>>
             THEN SectionLoopHeadingRows(Tail(lines), current_section,
                                         [data EXCEPT !.insights = Append(@, PyStr(line))])
             ELSE IF "|" \in Range(line)
             THEN SectionLoopHeadingRows(Tail(lines), current_section,
                                         [data EXCEPT !.tabular_data = Append(@, PyStr(line))])
             ELSE SectionLoopHeadingRows(Tail(lines), current_section, data)

RECURSIVE SectionLoop(_, _, _)
\* the loop over the lines: what it appends to data['insights'] and data['tabular_data']
SectionLoop(lines, current_section, data) ==
    IF lines = <<>> THEN data
    ELSE LET line == Strip(Head(lines))
         IN  IF line # <<>> /\ line[1] \in SectionGlyphs
             THEN SectionLoop(Tail(lines), line,
                              [data EXCEPT !.insights = Append(@, PyStr(line))])
             ELSE IF line # <<>> /\ line[1] = "-" /\ current_section # <<>>
             THEN SectionLoop(Tail(lines), current_section,
                              [data EXCEPT !.insights = Append(@, PyStr(line))])
             ELSE IF "|" \in Range(line) /\ ~(line # <<>> /\ line[1] = "#")
             THEN SectionLoop(Tail(lines), current_section,
                              [data EXCEPT !.tabular_data = Append(@, PyStr(line))])
             ELSE SectionLoop(Tail(lines), current_section, data)

extract_chart_data(output, chart_type) ==
    LET found == SectionLoop(SplitOn(output, "\n"), <<>>, [insights |-> <<>>, tabular_data |-> <<>>])
    IN  [type |-> chart_type,
         title |-> PyStr(TitleMatch(output)),
         image_data |-> PyStr(ImageMatch(output)),
         tabular_data |-> PyList(found.tabular_data),
         insights |-> PyList(found.insights),
         raw_output |-> PyStr(output)]

\* the lines a tool output is made of
SprayHeading ==
    <<"#", " ">> \o PlayerNames[1] \o <<" ", "-", " ", "2", "0", "2", "0", " ", "Spray Chart">>
ComparisonHeading(stat_type) == <<"#", " ", "2", "0", "2", "4", " ", stat_type, " ", "Comparison">>
Payload == <<"iVBORw0KGgo", "=">>
ImageLink(alt, uri) == <<"!", "[">> \o alt \o <<"]", "(">> \o uri \o <<")">>

OutputLines ==
    { SprayHeading, ComparisonHeading("Batting"), ComparisonHeading("Pitching"),
      ComparisonHeading("Fielding"),
      <<"#", " ">> \o PlayerNames[1] \o <<" ", "-", " ", "Spray Chart">>,
      <<"#", "Summary">>, <<"#", "#", " ", "Overview">>,
      <<>>,
      ImageLink(<<"Spray Chart">>, DataUriPrefix \o Payload),
      ImageLink(<<"logo">>, <<"https", ":", "//example.org/logo.png">>),
      ImageLink(<<>>, DataUriPrefix),
      <<"U+1F4CA", " ", "**", "Total Hits Tracked", ":", " ", "3", "**">>,
      <<" ", "-", " ", "Left Field", ":", " ", "1">>,
      <<"|", " ", "Name", " ", "|", " ", "HR", " ", "|">>,
      <<"-", " ", "Pull", " ", "|", " ", "2">>,
      <<"#", " ", "AVG", " ", "|", " ", "OBP">>,
      <<"U+26A1", " ", "Exit Velocity", " ", "|", " ", "mph", "\t">> }

MaxLines == 2

OutputCases ==
    { JoinWith(<<"\n">>, lines) : lines \in UNION { [1..n -> OutputLines] : n \in 0..MaxLines } }

DetectChartType ==
    /\ Free
    /\ \E output \in OutputCases :
           Call("detect_chart_type", [output |-> output], Ok(detect_chart_type(output)))

ExtractChartData ==
    /\ Free
    /\ \E output \in OutputCases :
           Call("extract_chart_data", [output |-> output, chart_type |-> detect_chart_type(output)],
                Ok(extract_chart_data(output, detect_chart_type(output))))

\* ---------------------------------------------------------------------------
\* the tables and texts DataProcessor is called with on its own

\* the value of row i in a sample column: HR has its largest value twice, AVG its
\* smallest twice, OBP holds no value, WAR misses its first, Pos is text
SampleValue(col, i) ==
    CASE col = "Name" -> PyStr(SamplePlayer(i))
      [] col = "Team" -> PyStr(<<IF i % 2 = 1 THEN "LAA" ELSE "BOS">>)
      [] col = "player" -> PyStr(<<"p", DigitOf(i)>>)
      [] col = "Pos" -> PyStr(<<"CF">>)
      [] col = "HR" -> PyInt(IF i % 2 = 1 THEN 30 ELSE 12)
      [] col = "AVG" -> PyFloat(IF i = 1 THEN 3 ELSE 2)
      [] col = "OBP" -> PyNaN
      [] col = "WAR" -> IF i = 1 THEN PyNaN ELSE PyFloat(70 - 25 * i)
      [] col = "G" -> PyInt(100 + i)

SampleRow(columns, i) ==
    [c \in {columns[k] : k \in 1..Len(columns)} |-> SampleValue(c, i)]

SampleTable(columns, n) == DataFrame(columns, [i \in 1..n |-> SampleRow(columns, i)])

IdentityColumns == { <<>>, <<"Name">>, <<"Team", "Name">>, <<"player">>, <<"Team">> }

ValueColumns ==
    { <<>>, <<"HR">>, <<"Pos", "HR", "AVG">>, <<"HR", "AVG", "WAR">>, <<"HR", "AVG", "WAR", "G">>,
      <<"OBP", "HR">>, <<"HR", "OBP", "AVG", "G">>, <<"WAR">> }

TableCases ==
    { SampleTable(id \o val, n) : id \in IdentityColumns, val \in ValueColumns, n \in 0..MaxRows }

ContextCases == { <<>>, <<"2", "0", "2", "4", " ", "season">> }

CreateSummaryInsights ==
    /\ Free
    /\ \E df \in TableCases, context \in ContextCases :
           Call("create_summary_insights", [df |-> df, context |-> context],
                Ok(PyStr(create_summary_insights(df, context))))

TitleCases == { <<>>, <<"2", "0", "2", "4", " ", "Batting">>, <<" ">> }

FormatDataframeAsMarkdown ==
    /\ Free
    /\ \E df \in TableCases, title \in TitleCases :
           Call("format_dataframe_as_markdown", [df |-> df, title |-> title],
                Ok(PyStr(format_dataframe_as_markdown(df, title))))

\* the id of the artifact this invocation returned: the one create_chart_artifact
\* built for a chart handler, or the one it returned when called on its own
ReturnedIds ==
    IF made.built THEN {made.artifact.id}
    ELSE IF op = "create_chart_artifact" /\ ret.ok THEN {ret.v.id}
    ELSE {}

\* a server that keeps the response of every invocation in the cache of the context
FinishCaching ==
    /\ pc \in {"done", "processed"}
    /\ op' = "none"
    /\ args' = NoArgs
    /\ pc' = "idle"
    /\ loc' = NoLoc
    /\ ext' = <<>>
    /\ ret' = NoRet
    /\ errlog' = 0
    /\ caught' = NoExc
    /\ made' = NoChart
    /\ processed' = PyNone
    /\ issued' = issued \cup ReturnedIds
    /\ lifespan_context' = [lifespan_context EXCEPT !.cache = @ \cup {op}]
    /\ earlier' = NoEarlier
    /\ UNCHANGED <<current_year, lifespan>>

\* the response has gone to the caller: of the invocation only the id of its
\* artifact is remembered
Finish ==
    /\ pc \in {"done", "processed"}
    /\ op' = "none"
    /\ args' = NoArgs
    /\ pc' = "idle"
    /\ loc' = NoLoc
    /\ ext' = <<>>
    /\ ret' = NoRet
    /\ errlog' = 0
    /\ caught' = NoExc
    /\ made' = NoChart
    /\ processed' = PyNone
    /\ issued' = issued \cup ReturnedIds
    /\ earlier' = NoEarlier
    /\ UNCHANGED <<current_year, lifespan_context, lifespan>>

\* the lifespan of the server ends, with the server body returning or raising: the
\* finally clause of app_lifespan clears the cache
LifespanEnds ==
    /\ Free
    /\ \E how \in {"ended", "failed"} : lifespan' = how
    /\ lifespan_context' = [lifespan_context EXCEPT !.cache = {}]
    /\ UNCHANGED <<current_year, op, args, pc, loc, ext, ret, errlog, caught, made, processed,
                   issued, earlier>>

\* the year turns between two invocations
Tick ==
    /\ Free
    /\ current_year < FirstYear + MaxYearsAhead
    /\ current_year' = current_year + 1
    /\ UNCHANGED <<op, args, pc, loc, ext, ret, errlog, caught, made, processed, issued,
                   lifespan_context, lifespan, earlier>>

\* the server: the ten handlers behind the wrapper of server.py
Next ==
    \/ LookupPlayerId
    \/ ReverseLookupPlayer
    \/ SearchPlayersFuzzy
    \/ GetPlayerCareerSpan
    \/ GetBattingStats
    \/ GetPitchingStats
    \/ GetPlayerBattingStatsRange
    \/ GetTeamBattingStats
    \/ CreateSprayChart
    \/ CreateStatComparisonChart
    \/ ExternalReturns
    \/ ExternalRaises
    \/ FigureRendered
    \/ RenderingFails
    \/ ProcessChartResponse
    \/ Finish
    \/ LifespanEnds

Spec == Init /\ [][Next]_vars

\* the Validator's methods called on their own, over the years
ValidatorNext ==
    \/ ValidateSeason
    \/ ValidatePlayerName
    \/ ValidateDateRange
    \/ ValidateStatcastParams
    \/ ValidateDate
    \/ ValidateTeam
    \/ Finish
    \/ Tick

ValidatorSpec == Init /\ [][ValidatorNext]_vars

\* the caller of create_chart_artifact calls it again with the dict and the flag of the
\* call that has returned: the dict is the object the first call was given, as that
\* call left it (no statement of the function assigns to it or to a value it holds)
CreateChartArtifactAgain ==
    /\ pc = "done" /\ op = "create_chart_artifact" /\ lifespan = "running"
    /\ ~earlier.called
    /\ earlier' = [called |-> TRUE, chart_data |-> args.chart_data, compact |-> args.compact,
                   ret |-> ret]
    /\ \E hex \in UuidSamples :
          ret' = create_chart_artifact(args.chart_data, args.compact, ArtifactId(hex))
    /\ issued' = issued \cup ReturnedIds
    /\ UNCHANGED <<current_year, op, args, pc, loc, ext, errlog, caught, made, processed,
                   lifespan_context, lifespan>>

\* create_chart_artifact called twice on one ChartData
RepeatNext ==
    \/ CreateChartArtifact
    \/ CreateChartArtifactAgain
    \/ Finish

RepeatSpec == Init /\ [][RepeatNext]_vars

\* create_chart_artifact called on its own
ArtifactNext ==
    \/ CreateChartArtifact
    \/ Finish

ArtifactSpec == Init /\ [][ArtifactNext]_vars

\* the methods of DataProcessor called on their own
DataProcessorNext ==
    \/ CreateSummaryInsights
    \/ FormatDataframeAsMarkdown
    \/ Finish

DataProcessorSpec == Init /\ [][DataProcessorNext]_vars

\* the methods of ChartProcessor called on their own
ProcessorNext ==
    \/ DetectChartType
    \/ ExtractChartData
    \/ Finish

ProcessorSpec == Init /\ [][ProcessorNext]_vars

-----------------------------------------------------------------------------
(* The properties *)

\* a handler has returned or raised
HandlerDone == op \in Handlers /\ pc \in {"done", "processed"}

\* the invocation caught an exception of class exc
Caught(exc) == ~caught.ok /\ caught.exc = exc

\* C1: whenever a check of a handler raises ValidationError, the handler does
\* not raise: it returns one string, which is the failure indicator of its
\* module, the text " Validation Error: " and the message of the
\* ValidationError unchanged, and nothing else.
C1_ValidationErrorString ==
    (HandlerDone /\ Caught("ValidationError"))
        => ret = Ok(PyStr(Glyph(op) \o <<" ", "Validation Error", ":", " ">> \o caught.msg))

\* a plotting handler has turned the ValidationError of a Validator check
\* into its string
C1_Witness ==
    /\ HandlerDone /\ Caught("ValidationError")
    /\ op = "create_spray_chart"
    /\ args.player_name = PyStr(<<"x", "1">>)
    /\ ret.ok /\ EndsWith(ret.v.v, <<"Player name contains invalid characters">>)

\* C2: no handler lets an exception through: whatever the arguments (a
\* missing context included) and whatever the external source or the renderer
\* does, a finished handler has returned one string; when it caught an
\* exception the string is the failure indicator followed by an error text
\* ending in the exception's message, and no chart was built; a handler makes
\* at most MaxPlayers external calls, so it does finish.
C2_NoExceptionPropagates ==
    /\ op \in Handlers => Len(ext) <= MaxPlayers
    /\ HandlerDone =>
          /\ ret.ok
          /\ ret.v.t = "str"
          /\ ret.v.v # <<>>
          /\ ~caught.ok =>
                /\ StartsWith(ret.v.v, Glyph(op) \o <<" ">>)
                /\ EndsWith(ret.v.v, <<":", " ">> \o caught.msg)
                /\ ~made.built

\* the external source raised under a chart handler that had already had an
\* answer from it, and the handler returned its error string
C2_Witness ==
    /\ HandlerDone /\ Caught("HTTPError")
    /\ op = "create_stat_comparison_chart"
    /\ Len(ext) = 2 /\ ext[2].raised
    /\ ret.ok

\* C3: in every invocation the validation of all inputs ends before the first
\* call of the external source: a handler that returns the validation error
\* string has made no external call.
C3_ValidationBeforeExternalCalls ==
    (HandlerDone /\ Caught("ValidationError")) => ext = <<>>

\* what process_chart_response makes of one field of the artifact
Deserialized(key) == ItemsGet(processed.data, <<key>>)

\* C4: whenever a chart handler succeeds, its response is "CHART_ARTIFACT:"
\* followed by the serialization of the artifact A that create_chart_artifact
\* built, and process_chart_response makes of it {type: "artifact", data: A'}
\* where A' has the id, title, content and artifact_type of A.
C4_WireRoundTrip ==
    (op \in PlottingTools /\ made.built) =>
        /\ ret.ok /\ StartsWith(ret.v.v, ChartMarker)
        /\ pc = "processed" =>
              /\ processed.t = "dict"
              /\ processed.type = "artifact"
              /\ Deserialized("id") = PyStr(made.artifact.id)
              /\ Deserialized("title") = PyStr(made.artifact.title)
              /\ Deserialized("content") = PyStr(made.artifact.content)
              /\ Deserialized("artifact_type") = PyStr(made.artifact.artifact_type)

\* the artifact of a spray chart whose title holds an apostrophe went through
\* the wire format
C4_Witness ==
    /\ op = "create_spray_chart" /\ pc = "processed" /\ made.built
    /\ "'" \in Range(made.artifact.title)
    /\ processed.t = "dict"

\* the key is absent from the chart data or holds the empty value
EmptyOrAbsent(chart_data, key, empty) ==
    key \notin DOMAIN chart_data \/ chart_data[key] = empty

\* C5: create_chart_artifact does not raise for chart data whose image_data
\* is empty or absent and whose insights is empty or absent, compact or full:
\* the content starts with "<!DOCTYPE html>", ends with "</html>" and holds
\* the placeholder of the image and the placeholder of the data of its mode.
C5_ArtifactOfEmptyChart ==
    (/\ op = "create_chart_artifact" /\ pc = "done"
     /\ EmptyOrAbsent(args.chart_data, "image_data", PyStr(<<>>))
     /\ EmptyOrAbsent(args.chart_data, "insights", PyList(<<>>)))
        => /\ ret.ok
           /\ StartsWith(ret.v.content, <<"<!DOCTYPE html>">>)
           /\ EndsWith(ret.v.content, <<"</html>">>)
           /\ Contains(ret.v.content,
                       <<IF args.compact THEN "No chart available" ELSE "No chart data available">>)
           /\ Contains(ret.v.content,
                       <<IF args.compact THEN "No summary data available"
                         ELSE "No insights available">>)

\* a compact artifact was made of chart data with neither key
C5_Witness ==
    /\ op = "create_chart_artifact" /\ pc = "done" /\ args.compact
    /\ "image_data" \notin DOMAIN args.chart_data
    /\ "insights" \notin DOMAIN args.chart_data
    /\ ret.ok

\* C6: the image_data of the chart data a chart handler builds is the bare
\* base64 payload: it does not start with "data:image/png;base64,", and the
\* document holds that prefix once.
C6_ImageDataIsBarePayload ==
    (op \in PlottingTools /\ made.built /\ Truthy(made.chart_data.image_data)) =>
        /\ ~StartsWith(made.chart_data.image_data.v, DataUriPrefix)
        /\ CountOf(made.artifact.content, DataUriPrefix) = 1

\* C7: get_batting_stats with a valid season s and an int qualifier q of
\* 0..700, when the external source returns a table of no rows, returns a
\* string that holds "No batting statistics found for <s> with qualifier <q>+"
\* with q written as the int the caller passed.
C7_EmptyTableMessage ==
    (/\ op = "get_batting_stats" /\ HandlerDone
     /\ args.season.t = "int" /\ args.qual.t = "int" /\ args.qual.v \in 0..700
     /\ ext # <<>> /\ ~ext[1].raised /\ ext[1].empty)
        => /\ ret.ok
           /\ Contains(ret.v.v,
                       <<"No ", "batting", " statistics found for ">> \o IntToStr(args.season.v)
                       \o <<" with qualifier ">> \o IntToStr(args.qual.v) \o <<"+">>)

\* C8: validate_season(y) of an int y returns y when 1871 <= y <=
\* current_year + 1 and raises ValidationError for every other int.
C8_SeasonBounds ==
    (op = "validate_season" /\ pc = "done" /\ args.season.t = "int") =>
        IF 1871 <= args.season.v /\ args.season.v <= current_year + 1
        THEN ret = Ok(PyInt(args.season.v))
        ELSE ~ret.ok /\ ret.exc = "ValidationError"

\* each of the four seasons next to the two limits has been tried, the upper
\* ones after the year has turned
C8_Witness ==
    /\ op = "validate_season" /\ pc = "done"
    /\ current_year = FirstYear + 1
    /\ args.season = PyInt(current_year + 1)
    /\ ret.ok

\* a date as YYYY-MM-DD
IsoText(dt) ==
    ZeroPad(NatToStr(dt.y), 4) \o <<"-">> \o ZeroPad(NatToStr(dt.m), 2) \o <<"-">>
    \o ZeroPad(NatToStr(dt.d), 2)

\* the text is a date in one of the four formats, of a year of four digits
Parseable(x) == x.t = "str" /\ FirstParse(x.v, date_formats).ok /\ FirstParse(x.v, date_formats).v.y >= 1000

\* date a is before date b
DateBefore(a, b) ==
    \/ a.y < b.y
    \/ a.y = b.y /\ a.m < b.m
    \/ a.y = b.y /\ a.m = b.m /\ a.d < b.d

\* date b is more than n calendar years after date a
MoreThanYearsAfter(a, b, n) == DateBefore([y |-> a.y + n, m |-> a.m, d |-> a.d], b)

\* C9: validate_date_range on two parseable dates raises ValidationError
\* exactly when end <= start or end is more than 5 years after start; for
\* start before end and end at most 5 calendar years after start (exactly 5
\* included) it returns the pair, both dates as YYYY-MM-DD.
C9_RangeOfFiveYears ==
    (/\ op = "validate_date_range" /\ pc = "done"
     /\ Parseable(args.start_date) /\ Parseable(args.end_date))
        => LET start == FirstParse(args.start_date.v, date_formats).v
               end == FirstParse(args.end_date.v, date_formats).v
           IN  IF DateBefore(start, end) /\ ~MoreThanYearsAfter(start, end, 5)
               THEN ret = Ok(PyTuple2(PyStr(IsoText(start)), PyStr(IsoText(end))))
               ELSE ~ret.ok /\ ret.exc = "ValidationError"

\* the name is a str whose trimmed form has 2 to 50 characters, each a
\* letter, a space, a hyphen, an apostrophe or a period
NameAccepted(name) ==
    /\ name.t = "str"
    /\ StrLen(Strip(name.v)) >= 2
    /\ StrLen(Strip(name.v)) <= 50
    /\ \A i \in 1..Len(Strip(name.v)) : NameCharSpaceOnly(Strip(name.v)[i])

\* C10: validate_player_name returns the trimmed form of a str whose trimmed
\* form has 2 to 50 characters, each a letter, a space, a hyphen, an
\* apostrophe or a period, and raises ValidationError for every other input.
C10_NameAccepted ==
    (op = "validate_player_name" /\ pc = "done") =>
        IF NameAccepted(args.name)
        THEN ret = Ok(PyStr(Strip(args.name.v)))
        ELSE ~ret.ok /\ ret.exc = "ValidationError"

\* the 30 team codes of the specification
TeamCodes ==
    {"LAA", "HOU", "OAK", "TOR", "ATL", "MIL", "STL", "CHC", "ARI", "LAD",
     "SF", "CLE", "SEA", "MIA", "NYM", "WSH", "BAL", "SD", "PHI", "PIT",
     "TEX", "TB", "BOS", "CIN", "COL", "KC", "DET", "MIN", "CWS", "NYY"}

\* the upper-cased spelling of the codes the callers write in lower or mixed case
UpperCased(c) ==
    CASE c = "bos" -> "BOS" [] c = "Bos" -> "BOS" [] c = "nyy" -> "NYY" [] OTHER -> c

\* the code a caller's value denotes: its trimmed upper-cased form, when that is one
\* of the 30 codes
DenotedTeams(team) ==
    IF team.t # "str" THEN {}
    ELSE { c \in TeamCodes :
             \E i \in 1..Len(team.v) :
                 /\ UpperCased(team.v[i]) = c
                 /\ \A j \in 1..Len(team.v) : j # i => team.v[j] \in WhiteSpace }

\* C11: validate_team returns the upper-cased code of every string whose trimmed
\* upper-cased form is one of the 30 team codes ('bos' gives 'BOS') and raises
\* ValidationError for every other input, so what it returns is one of the 30 codes.
C11_TeamMembership ==
    (op = "validate_team" /\ pc = "done") =>
        /\ \A c \in DenotedTeams(args.team) : ret = Ok(PyStr(<<c>>))
        /\ DenotedTeams(args.team) = {} => ~ret.ok /\ ret.exc = "ValidationError"
        /\ ret.ok => ret.v.t = "str" /\ Len(ret.v.v) = 1 /\ ret.v.v[1] \in TeamCodes
        /\ Cardinality(TeamCodes) = 30

C11_Witness ==
    /\ op = "validate_team" /\ pc = "done"
    /\ args.team = PyStr(<<"bos">>)
    /\ ret = Ok(PyStr(<<"BOS">>))

C11_WitnessRejected ==
    /\ op = "validate_team" /\ pc = "done"
    /\ args.team = PyStr(<<"xyz">>)
    /\ ~ret.ok

\* the calendar dates the text denotes in one of the four formats: year of four
\* digits, month and day of two
CalendarYears == DateYears \cup {2021}

DenotedDates(x) ==
    IF x.t # "str" THEN {}
    ELSE { dt \in [y : CalendarYears, m : 1..12, d : 1..31] :
             /\ dt.d <= DaysInMonth(dt.y, dt.m)
             /\ \E k \in 1..4 : x.v = DateText(dt, date_formats[k]) }

\* C12: validate_date accepts a text exactly when it denotes a real calendar date in
\* one of the formats YYYY-MM-DD, MM/DD/YYYY, MM-DD-YYYY, YYYY/MM/DD and returns that
\* date as YYYY-MM-DD; every other input raises ValidationError; and the result of an
\* accepted input is accepted again and returned unchanged.
C12_DateNormalization ==
    (op = "validate_date" /\ pc = "done") =>
        /\ \A dt \in DenotedDates(args.date_str) : ret = Ok(PyStr(IsoText(dt)))
        /\ DenotedDates(args.date_str) = {} => ~ret.ok /\ ret.exc = "ValidationError"
        /\ ret.ok => validate_date(ret.v, args.libc) = ret

\* the result is accepted again and comes back unchanged
C12_Idempotent ==
    (op = "validate_date" /\ pc = "done" /\ ret.ok) => validate_date(ret.v, args.libc) = ret

\* a date of a year before 1000 has been normalized on glibc
C12_EarlyYearOnGlibc ==
    /\ op = "validate_date" /\ pc = "done"
    /\ args.date_str = PyStr(<<"0", "9", "9", "9", "-", "0", "1", "-", "0", "1">>)
    /\ args.libc = "glibc"
    /\ ret = Ok(PyStr(<<"9", "9", "9", "-", "0", "1", "-", "0", "1">>))
    /\ ~validate_date(ret.v, args.libc).ok

\* apart from years before 1000 and fields without their leading zero the function
\* does what C12 says
C12_FourDigitYearsPadded ==
    (/\ op = "validate_date" /\ pc = "done"
     /\ args.date_str.t = "str"
     /\ args.date_str.v # <<"2", "0", "2", "0", "-", "1", "-", "2">>
     /\ \A dt \in DenotedDates(args.date_str) : dt.y >= 1000) =>
        /\ \A dt \in DenotedDates(args.date_str) : ret = Ok(PyStr(IsoText(dt)))
        /\ DenotedDates(args.date_str) = {} => ~ret.ok /\ ret.exc = "ValidationError"
        /\ ret.ok => validate_date(ret.v, args.libc) = ret

\* the lines of the text handed to the ChartProcessor
LinesOf(output) == SplitOn(output, "\n")

\* the places of a line where '# ' is followed by text
MarkerPlaces(line) == {p \in 1..(Len(line) - 2) : line[p] = "#" /\ line[p + 1] = " "}

\* the text after the first '# ' of the first line that has one, or the empty string
FirstHeadingText(output) ==
    LET with == {n \in 1..Len(LinesOf(output)) : MarkerPlaces(LinesOf(output)[n]) # {}}
        line == LinesOf(output)[CHOOSE n \in with : \A m \in with : n <= m]
        p == CHOOSE p \in MarkerPlaces(line) : \A q \in MarkerPlaces(line) : p <= q
    IN  IF with = {} THEN <<>> ELSE SubSeq(line, p + 2, Len(line))

\* the text holds the image link with the base64 payload
HasDataLink(output) ==
    \E n \in 1..Len(LinesOf(output)) :
        LinesOf(output)[n] = ImageLink(<<"Spray Chart">>, DataUriPrefix \o Payload)

\* C13: extract_chart_data returns a record whose title is the text after the first
\* '# ' heading marker, up to the end of its line, and whose image_data is the
\* base64 payload of the data:image/png;base64 link without the prefix; without
\* such a heading the title is the empty string and without such a link image_data is.
C13_TitleAndImage ==
    (op = "extract_chart_data" /\ pc = "done") =>
        /\ ret.v.title = PyStr(FirstHeadingText(args.output))
        /\ ret.v.image_data = PyStr(IF HasDataLink(args.output) THEN Payload ELSE <<>>)

C13_Witness ==
    /\ op = "extract_chart_data" /\ pc = "done"
    /\ args.output = SprayHeading \o <<"\n">> \o ImageLink(<<"Spray Chart">>, DataUriPrefix \o Payload)
    /\ ret.v.title = PyStr(<<"Mike", " ", "Trout", " ", "-", " ", "2", "0", "2", "0", " ", "Spray Chart">>)
    /\ ret.v.image_data = PyStr(Payload)
    /\ Payload # <<>>

\* a text without heading and without link gives two empty strings
C13_WitnessNeither ==
    /\ op = "extract_chart_data" /\ pc = "done"
    /\ args.output = <<"#", "Summary">>
    /\ ret.v.title = PyStr(<<>>) /\ ret.v.image_data = PyStr(<<>>)

HasLine(output, wanted) == \E n \in 1..Len(LinesOf(output)) : LinesOf(output)[n] \in wanted

\* C14: detect_chart_type returns 'spray_chart' for a text with a heading
\* '# <name> - <year> Spray Chart', 'comparison_chart' for one with a heading
\* '# <year> Batting Comparison' or '# <year> Pitching Comparison' and no spray
\* heading, None for a text with neither; with both the result is 'spray_chart'.
C14_DetectChartType ==
    (op = "detect_chart_type" /\ pc = "done") =>
        ret = Ok(IF HasLine(args.output, {SprayHeading}) THEN PyStr(<<"spray_chart">>)
                 ELSE IF HasLine(args.output, {ComparisonHeading("Batting"),
                                               ComparisonHeading("Pitching")})
                 THEN PyStr(<<"comparison_chart">>)
                 ELSE PyNone)

C14_Witness ==
    /\ op = "detect_chart_type" /\ pc = "done"
    /\ args.output = ComparisonHeading("Pitching") \o <<"\n">> \o SprayHeading
    /\ ret = Ok(PyStr(<<"spray_chart">>))

C14_WitnessNone ==
    /\ op = "detect_chart_type" /\ pc = "done"
    /\ args.output = ComparisonHeading("Fielding")
    /\ ret = Ok(PyNone)

\* the line opens with one of the three glyphs the artifact creator takes for a
\* category, or with a dash
RecognizedLine(line) ==
    /\ line.t = "str"
    /\ \/ IsCategoryLine(line.v)
       \/ StartsWith(line.v, <<"-">>)

\* C15: every line of the insights of the ChartData a chart handler builds is a
\* category header that opens with one of the three glyphs the artifact creator
\* recognizes, or a detail line that opens with a dash.
C15_InsightLines ==
    (op \in PlottingTools /\ made.built) =>
        \A i \in 1..Len(made.chart_data.insights.v) :
            RecognizedLine(made.chart_data.insights.v[i])

\* the insights of the spray chart keep to the two kinds of line
C15_SprayInsightLines ==
    (op = "create_spray_chart" /\ made.built) =>
        \A i \in 1..Len(made.chart_data.insights.v) :
            RecognizedLine(made.chart_data.insights.v[i])

\* a comparison chart whose insights hold the header of the metric leaders
C15_LeadersHeader ==
    /\ op = "create_stat_comparison_chart" /\ made.built
    /\ \E i \in 1..Len(made.chart_data.insights.v) :
          /\ StartsWith(made.chart_data.insights.v[i].v, TrophyGlyph)
          /\ ~RecognizedLine(made.chart_data.insights.v[i])

\* the columns of numbers of a table, in column order
ColumnsOfNumbers(df) ==
    SelectSeq(df.columns,
              LAMBDA c : \A i \in 1..Len(df.rows) : df.rows[i][c].t \in {"int", "float", "nan"})

\* the columns the insights report: of the first three columns of numbers, those
\* that hold a value
ReportedColumns(df) ==
    SelectSeq(SubSeq(ColumnsOfNumbers(df), 1,
                     IF Len(ColumnsOfNumbers(df)) > 3 THEN 3 ELSE Len(ColumnsOfNumbers(df))),
              LAMBDA c : \E i \in 1..Len(df.rows) : df.rows[i][c].t # "nan")

IdentityPriority == <<"Name", "Player", "Team", "name", "player", "team">>

\* the places of the priority list whose name is a column of the table
IdentityPlaces(df) == {k \in 1..Len(IdentityPriority) : HasColumn(df, IdentityPriority[k])}

\* row i holds the largest (smallest) value of the column
HoldsMax(df, c, i) ==
    /\ df.rows[i][c].t # "nan"
    /\ \A j \in 1..Len(df.rows) :
          df.rows[j][c].t # "nan" => Tenths(df.rows[j][c]) <= Tenths(df.rows[i][c])
HoldsMin(df, c, i) ==
    /\ df.rows[i][c].t # "nan"
    /\ \A j \in 1..Len(df.rows) :
          df.rows[j][c].t # "nan" => Tenths(df.rows[j][c]) >= Tenths(df.rows[i][c])

\* the line reports the largest and the smallest value of column c, with the names
\* of rows that hold them when the table has an identity column
ReportsColumn(line, df, c) ==
    \E i \in 1..Len(df.rows), j \in 1..Len(df.rows) :
        /\ HoldsMax(df, c, i) /\ HoldsMin(df, c, j)
        /\ IF IdentityPlaces(df) # {}
           THEN LET nc == IdentityPriority[CHOOSE k \in IdentityPlaces(df) :
                                              \A m \in IdentityPlaces(df) : k <= m]
                IN  line = <<"U+1F3C6", " ", "*", "*", c, "*", "*", ":", " ", "Highest = ">>
                           \o PyToStr(df.rows[i][c]) \o <<" ", "(">> \o df.rows[i][nc].v
                           \o <<")", ", Lowest = ">> \o PyToStr(df.rows[j][c])
                           \o <<" ", "(">> \o df.rows[j][nc].v \o <<")">>
           ELSE line = <<"U+1F4C8", " ", "*", "*", c, "*", "*", ":", " ", "Range = ">>
                       \o PyToStr(df.rows[j][c]) \o <<" to ">> \o PyToStr(df.rows[i][c])

C16_WitnessRange ==
    /\ op = "create_summary_insights" /\ pc = "done"
    /\ args.df = SampleTable(<<"HR", "OBP", "AVG", "G">>, MaxRows)
    /\ Len(SplitOn(ret.v.v, "\n")) = 3
    /\ Contains(ret.v.v, <<"Range = ">>)

\* C19: format_dataframe_as_markdown of an empty table returns exactly '## ' +
\* title + two newlines + 'No data available.' for every title, the empty one
\* included, and renders no table; of a table with rows and a title that is not
\* empty it returns a text that begins with the line '## ' + title and a blank line.
C19_MarkdownHeading ==
    (op = "format_dataframe_as_markdown" /\ pc = "done") =>
        IF args.df.rows = <<>> \/ args.df.columns = <<>>
        THEN /\ ret = Ok(PyStr(<<"#", "#", " ">> \o args.title \o <<"\n", "\n", "No data available.">>))
             /\ "|" \notin Range(ret.v.v)
        ELSE args.title # <<>> =>
                /\ StartsWith(ret.v.v, <<"#", "#", " ">> \o args.title \o <<"\n", "\n">>)
                /\ Len(ret.v.v) > Len(args.title) + 5

\* an empty table with the empty title
C19_Witness ==
    /\ op = "format_dataframe_as_markdown" /\ pc = "done"
    /\ args.df.rows = <<>> /\ args.df.columns # <<>>
    /\ args.title = <<>>
    /\ ret = Ok(PyStr(<<"#", "#", " ", "\n", "\n", "No data available.">>))

\* a table with rows under a title
C19_WitnessTable ==
    /\ op = "format_dataframe_as_markdown" /\ pc = "done"
    /\ Len(args.df.rows) = MaxRows /\ args.title # <<>>
    /\ "|" \in Range(ret.v.v)

\* the invocation is over and the last table the external source gave it was empty
EndedOnEmptyTable ==
    /\ op \in Handlers /\ pc = "done"
    /\ ext # <<>> /\ ext[Len(ext)].empty

\* the phrases by which a response says that nothing was found
NotFoundPhrases ==
    { " statistics found for ", "No FanGraphs ID found for ", "No batting statistics found for ",
      "No team batting statistics found for ", "No players found for ", "No player found with ",
      "No players found matching ", "No MLB AM ID found for ", "No Statcast data found for ",
      "No hit data found for ", " not found",
      "Could not find sufficient stats for comparison in " }

\* the response opens with a failure indicator and says 'No ... found' or '... not found'
NotFoundMessage(resp) ==
    /\ \/ StartsWith(resp, CrossMark)
       \/ StartsWith(resp, PlottingCrossMark)
    /\ \E i \in 1..Len(resp) : resp[i] \in NotFoundPhrases

\* C17: in every handler an empty table from the external source ends the
\* invocation with a 'not found' message: a failure indicator followed by
\* 'No ... found' or '... not found', no exception caught, nothing logged, and a
\* text that is no 'Validation Error' and no 'Error ...' message.
C17_EmptyResultIsNotFound ==
    EndedOnEmptyTable =>
        /\ ret.ok /\ ret.v.t = "str"
        /\ NotFoundMessage(ret.v.v)
        /\ caught = NoExc
        /\ errlog = 0
        /\ \A i \in 1..Len(ret.v.v) : ret.v.v[i] \notin {"Error", "Validation Error"}

\* every handler but the comparison chart ends on an empty table the way C17 says
C17_OneTableHandlers ==
    (EndedOnEmptyTable /\ op # "create_stat_comparison_chart") =>
        /\ ret.ok /\ NotFoundMessage(ret.v.v)
        /\ caught = NoExc /\ errlog = 0

\* the comparison chart went on after the empty table of its first player and
\* ended in the exception branch of the second player's name
C17_ComparisonWentOn ==
    /\ op = "create_stat_comparison_chart" /\ EndedOnEmptyTable
    /\ Caught("ValidationError")
    /\ ~NotFoundMessage(ret.v.v)

\* the texts with which the error strings of the handlers begin, after the glyph
ErrorLabels ==
    { "Error looking up player", "Error performing reverse lookup", "Error searching players",
      "Error getting career information", "Error retrieving batting statistics",
      "Error retrieving pitching statistics", "Error retrieving player batting statistics",
      "Error retrieving team batting statistics", "Error creating spray chart",
      "Error creating comparison chart", "Error fetching " }

\* C18: once a call to the external source has raised, the invocation makes no
\* further call: the raise is the last entry of the calls, and the state right after
\* it is the end of the handler, with one error string as its response and no
\* chart built.
C18_NoRetry ==
    (op \in Handlers /\ \E i \in 1..Len(ext) : ext[i].raised) =>
        /\ \A i \in 1..Len(ext) : ext[i].raised => i = Len(ext)
        /\ pc \in {"done", "processed"}
        /\ ret.ok /\ ret.v.t = "str"
        /\ \/ StartsWith(ret.v.v, CrossMark \o <<" ">>) /\ ret.v.v[3] \in ErrorLabels
           \/ StartsWith(ret.v.v, PlottingCrossMark \o <<" ">>) /\ ret.v.v[4] \in ErrorLabels
        /\ EndsWith(ret.v.v, caught.msg)
        /\ ~made.built

\* the comparison chart fetched the table of its first player, and the fetch for the
\* second raised: the invocation is over after two calls
C18_Witness ==
    /\ op = "create_stat_comparison_chart" /\ pc = "done"
    /\ Len(ext) = 2 /\ ~ext[1].raised /\ ext[2].raised
    /\ Len(args.players.v) > 2
    /\ Caught("HTTPError")

\* C20: every Artifact create_chart_artifact returns has the artifact_type
\* 'text/html', compact or not, and the title of the ChartData, and an id that no
\* artifact returned earlier in the process has.
C20_ArtifactIdentity ==
    (op = "create_chart_artifact" /\ pc = "done" /\ ret.ok) =>
        /\ ret.v.artifact_type = <<"text/html">>
        /\ "title" \in DOMAIN args.chart_data => ret.v.title = args.chart_data.title.v
        /\ ret.v.id \notin issued

\* the type and the title are as C20 says, compact or not
C20_TypeAndTitle ==
    (op = "create_chart_artifact" /\ pc = "done" /\ ret.ok) =>
        /\ ret.v.artifact_type = <<"text/html">>
        /\ "title" \in DOMAIN args.chart_data => ret.v.title = args.chart_data.title.v

\* a second artifact with the id of an earlier one
C20_SameIdTwice ==
    /\ op = "create_chart_artifact" /\ pc = "done" /\ ret.ok
    /\ ret.v.id \in issued

\* C21: whatever invocations have run, the shared context is as app_lifespan built
\* it: the three sets of the Validator and the team names of the DataProcessor have
\* their initial values and the cache is empty, also after the lifespan has ended,
\* with or without an error.
C21_ContextUnchanged ==
    /\ lifespan_context.validator.valid_teams = TeamCodes
    /\ lifespan_context.validator.valid_positions = {"C", "1B", "2B", "3B", "SS", "LF", "CF", "RF", "DH", "P"}
    /\ lifespan_context.validator.valid_stat_sources = {"fangraphs", "baseball_reference", "bref", "fg"}
    /\ lifespan_context.data_processor.team_abbreviations = team_abbreviations
    /\ DOMAIN lifespan_context.data_processor.team_abbreviations = TeamCodes
    /\ lifespan_context.cache = {}

\* an invocation whose external call raised is over, after an earlier one that
\* returned a chart
C21_Witness ==
    /\ op \in Handlers /\ pc = "done"
    /\ ext # <<>> /\ ext[Len(ext)].raised
    /\ issued # {}
    /\ lifespan_context = AppContext

\* the lifespan has ended with an error after a chart was returned
C21_WitnessFailed ==
    /\ lifespan = "failed" /\ issued # {}
    /\ lifespan_context.cache = {}

\* the trimmed lines of the text
TrimmedLines(output) == [n \in 1..Len(LinesOf(output)) |-> Strip(LinesOf(output)[n])]

\* the lines at the places of set at, in their order
LinesAt(lines, at) ==
    [k \in 1..Cardinality(at) |->
        PyStr(lines[CHOOSE n \in at : Cardinality({m \in at : m < n}) = k - 1])]

CategoryGlyphs == {"U+1F4CA", "U+1F3AF", "U+26A1"}

\* the places of the category lines, and of the dash lines after a category line
CategoryPlaces(lines) == {n \in 1..Len(lines) : lines[n] # <<>> /\ lines[n][1] \in CategoryGlyphs}
DetailPlaces(lines) ==
    {n \in 1..Len(lines) :
        /\ lines[n] # <<>> /\ lines[n][1] = "-"
        /\ \E m \in CategoryPlaces(lines) : m < n}

\* C22: the insights of extract_chart_data are, in the order of the text, exactly
\* the trimmed lines that begin with one of the three category glyphs and the
\* trimmed lines that begin with a dash and come after a category line; a dash
\* line before every category line is not among them, and insights and
\* tabular_data together have no more entries than the text has lines.
C22_InsightLinesExtracted ==
    (op = "extract_chart_data" /\ pc = "done") =>
        LET lines == TrimmedLines(args.output)
        IN  /\ ret.v.insights.v = LinesAt(lines, CategoryPlaces(lines) \cup DetailPlaces(lines))
            /\ Len(ret.v.insights.v) + Len(ret.v.tabular_data.v) <= Len(lines)

\* a dash line before the category line, which alone becomes an insight
C22_Witness ==
    /\ op = "extract_chart_data" /\ pc = "done"
    /\ StartsWith(args.output, <<" ", "-", " ", "Left Field">>)
    /\ Len(LinesOf(args.output)) = 2
    /\ Len(ret.v.insights.v) = 1
    /\ ret.v.insights.v[1].v[1] \in CategoryGlyphs

\* a category line and the dash line after it
C22_WitnessDetail ==
    /\ op = "extract_chart_data" /\ pc = "done"
    /\ Len(ret.v.insights.v) = 2
    /\ ret.v.insights.v[2].v[1] = "-"

\* the places of the table rows: a pipe in a line that is no insight and no heading
RowPlaces(lines) ==
    {n \in 1..Len(lines) :
        /\ "|" \in Range(lines[n])
        /\ lines[n][1] # "#"
        /\ n \notin CategoryPlaces(lines) \cup DetailPlaces(lines)}

\* C23: the tabular_data of extract_chart_data are, in the order of the text,
\* the trimmed lines that hold a pipe character, do not start with '#' and are
\* not taken as insights; a heading line with a pipe is never a table row.
C23_TableRows ==
    (op = "extract_chart_data" /\ pc = "done") =>
        LET lines == TrimmedLines(args.output)
        IN  /\ ret.v.tabular_data.v = LinesAt(lines, RowPlaces(lines))
            /\ \A k \in 1..Len(ret.v.tabular_data.v) : ret.v.tabular_data.v[k].v[1] # "#"

\* a heading with a pipe and a table row: only the row is in tabular_data
C23_Witness ==
    /\ op = "extract_chart_data" /\ pc = "done"
    /\ args.output = <<"#", " ", "AVG", " ", "|", " ", "OBP", "\n",
                       "|", " ", "Name", " ", "|", " ", "HR", " ", "|">>
    /\ ret.v.tabular_data.v = << PyStr(<<"|", " ", "Name", " ", "|", " ", "HR", " ", "|">>) >>

\* C23 as stated: tabular_data holds, in the order of the text, every trimmed
\* line with a pipe character that does not start with '#'.
C23_EveryPipeLineIsRow ==
    (op = "extract_chart_data" /\ pc = "done") =>
        LET lines == TrimmedLines(args.output)
        IN  ret.v.tabular_data.v =
                LinesAt(lines, {n \in 1..Len(lines) : "|" \in Range(lines[n]) /\ lines[n][1] # "#"})

\* a category line with a pipe is an insight and no table row
C23_WitnessInsight ==
    /\ op = "extract_chart_data" /\ pc = "done"
    /\ \E k \in 1..Len(ret.v.insights.v) : "|" \in Range(ret.v.insights.v[k].v)
    /\ ret.v.tabular_data.v = <<>>

\* what each insight line alone gives: no entry or one
LineEntries(insights) == [i \in 1..Len(insights) |-> MetricsStep(<<>>, insights[i].v)]

\* the labels in the order of their first line, each with the value of its last line
MetricsInOrder(insights) ==
    LET e == LineEntries(insights)
        gives == {i \in 1..Len(e) : e[i] # <<>>}
        first == {i \in gives : \A j \in gives : j < i => e[j][1].label # e[i][1].label}
        LastWith(i) == CHOOSE j \in gives :
                          /\ e[j][1].label = e[i][1].label
                          /\ \A k \in gives : e[k][1].label = e[i][1].label => k <= j
    IN  [k \in 1..Cardinality(first) |->
            LET i == CHOOSE n \in first : Cardinality({m \in first : m < n}) = k - 1
            IN  [label |-> e[i][1].label, value |-> e[LastWith(i)][1].value]]

ListOfLines(chart_data) ==
    /\ "insights" \in DOMAIN chart_data
    /\ chart_data.insights.t = "list"
    /\ \A i \in 1..Len(chart_data.insights.v) : chart_data.insights.v[i].t = "str"

\* C24: every insight line gives at most one label and value, so there are no
\* more metrics than insight lines; a label given by two lines keeps the place
\* of its first line and has the value of its last line; and the compact
\* document holds the cards of the metrics in that order.
C24_SummaryMetrics ==
    (op = "create_chart_artifact" /\ pc = "done" /\ ListOfLines(args.chart_data)) =>
        LET insights == args.chart_data.insights.v
            metrics == extract_summary_metrics(args.chart_data).v
        IN  /\ \A i \in 1..Len(insights) : Len(LineEntries(insights)[i]) <= 1
            /\ Len(metrics) <= Len(insights)
            /\ metrics = MetricsInOrder(insights)
            /\ (ret.ok /\ args.compact /\ metrics # <<>>) =>
                   Contains(ret.v.content,
                            Concat([i \in 1..Len(metrics) |-> MetricCard(MetricsInOrder(insights)[i])]))

\* two lines with the label Single, and a line that fits two rules
C24_Witness ==
    /\ op = "create_chart_artifact" /\ pc = "done" /\ ret.ok /\ args.compact
    /\ ListOfLines(args.chart_data)
    /\ args.chart_data.insights = RepeatedLabels
    /\ extract_summary_metrics(args.chart_data).v =
          << [label |-> <<"Single">>, value |-> <<"1", " ", "(", "50.0", "%", ")">>],
             [label |-> <<"Left", " ", "Field">>, value |-> <<"1", " ", "(", "33.3", "%", ")">>],
             [label |-> <<"Total", " ", "Hits">>, value |-> <<"5", " ", "(", "100", "%", ")">>] >>

ChartHandlers == {"create_spray_chart", "create_stat_comparison_chart"}

\* the arguments of the chart handler pass its validation
ChartArgumentsValid ==
    /\ args.ctx
    /\ validate_season(args.season, current_year).ok
    /\ IF op = "create_spray_chart"
       THEN /\ validate_player_name(args.player_name).ok
            /\ args.game_type \in valid_game_types
            /\ args.chart_type \in valid_chart_types
       ELSE /\ args.players.t = "list"
            /\ Len(args.players.v) \in 2..MaxPlayers
            /\ \A i \in 1..Len(args.players.v) : validate_player_name(args.players.v[i]).ok
            /\ args.stat_type \in {PyStr(<<"batting">>), PyStr(<<"pitching">>)}

\* no call to the external source raised, and the tables the chart needs had
\* rows: the lookup and the Statcast table, or the season tables of two players
UpstreamAnswered ==
    /\ \A i \in 1..Len(ext) : ~ext[i].raised
    /\ Cardinality({i \in 1..Len(ext) : ~ext[i].empty}) >= 2
    /\ op = "create_spray_chart" => Len(ext) = 2

\* C25: the response of a chart handler starts with 'CHART_ARTIFACT:' exactly
\* when the chart was rendered and its artifact built, which takes arguments that
\* pass validation and upstream tables with rows; every other response starts
\* with the failure indicator and not with 'CHART_ARTIFACT:', and
\* process_chart_response returns it as it is.
C25_MarkerIffChart ==
    (op \in ChartHandlers /\ pc \in {"done", "processed"}) =>
        /\ ret.ok /\ ret.v.t = "str"
        /\ StartsWith(ret.v.v, ChartMarker) <=> made.built
        /\ made.built => (ChartArgumentsValid /\ UpstreamAnswered /\ caught = NoExc)
        /\ ~made.built =>
              /\ StartsWith(ret.v.v, PlottingCrossMark)
              /\ ~StartsWith(ret.v.v, ChartMarker)
              /\ pc = "processed" => processed = ret.v

\* a spray chart was rendered and its response carries the marker
C25_Witness ==
    /\ op = "create_spray_chart" /\ pc = "processed"
    /\ made.built /\ StartsWith(ret.v.v, ChartMarker)
    /\ processed.t = "dict"

\* the renderer raised: the response is the failure text, handed on unchanged
C25_WitnessRenderingFailed ==
    /\ op = "create_stat_comparison_chart" /\ pc = "processed"
    /\ ChartArgumentsValid /\ UpstreamAnswered /\ caught # NoExc
    /\ StartsWith(ret.v.v, PlottingCrossMark)
    /\ processed = ret.v

\* the argument validation failed
C25_WitnessInvalid ==
    /\ op \in ChartHandlers /\ pc = "processed" /\ ext = <<>>
    /\ caught # NoExc /\ caught.exc = "ValidationError"
    /\ processed = ret.v

\* the metrics the caller asked for, and those of them the chart uses
RequestedMetrics ==
    IF args.metrics = PyNone
    THEN (IF args.stat_type.v = <<"batting">> THEN <<"AVG", "OBP", "SLG", "HR">>
          ELSE <<"ERA", "WHIP", "K/9", "WAR">>)
    ELSE args.metrics.v
UsedMetrics ==
    [k \in 1..(IF Len(RequestedMetrics) > 4 THEN 4 ELSE Len(RequestedMetrics)) |-> RequestedMetrics[k]]

\* the comparison chart ended with a validation error string and no external call
ValidationErrorOnly ==
    /\ pc \in {"done", "processed"} /\ ext = <<>> /\ ~made.built
    /\ ret.ok /\ ret.v.t = "str"
    /\ StartsWith(ret.v.v, PlottingCrossMark \o <<" ", "Validation Error", ":", " ">>)

InsufficientStats ==
    /\ ret.ok /\ ret.v.t = "str"
    /\ StartsWith(ret.v.v, PlottingCrossMark
                           \o <<" ", "Could not find sufficient stats for comparison in ">>)

\* what holds in every state of create_stat_comparison_chart
C26_States ==
    (op = "create_stat_comparison_chart" /\ args.ctx) =>
        /\ (~Truthy(args.players) \/ Len(args.players.v) < 2 \/ Len(args.players.v) > 4)
              => ValidationErrorOnly
        /\ pc = "render" =>
              /\ Len(loc.l.player_stats) >= 2
              /\ loc.l.metrics = UsedMetrics /\ Len(loc.l.metrics) <= 4
        /\ made.built =>
              /\ Len(made.chart_data.tabular_data.v) >= 2 + 2
              /\ made.chart_data.tabular_data.v[1].v =
                    <<"|", " ", "Player", " ", "|">>
                    \o Concat([k \in 1..Len(UsedMetrics) |->
                                 <<" ">> \o ColumnText(UsedMetrics[k]) \o <<" ", "|">>])
        /\ InsufficientStats => (~made.built /\ caught = NoExc)

\* what holds of every step that ends the loop over the players
C26_Steps ==
    (op = "create_stat_comparison_chart" /\ pc = "await") =>
        /\ pc' = "render" => Len(loc.l.player_stats) >= 1
        /\ (pc' = "done" /\ caught' = NoExc) =>
              /\ Len(loc.l.player_stats) <= 1
              /\ loc.l.i = Len(args.players.v)
              /\ InsufficientStats' /\ ~made'.built

\* C26: create_stat_comparison_chart answers a players list of fewer than 2 or
\* more than 4 names with a validation error string; it uses the first 4 of the
\* requested metrics at most (metrics None: the 4 defaults of the stat_type); it
\* renders a chart only with 2 or more of the players found in the tables, and
\* with fewer found after the last table it returns the text 'Could not find
\* sufficient stats' and renders nothing.
C26_ComparisonBounds == [](C26_States) /\ [][C26_Steps]_vars

\* five players were asked for
C26_Witness ==
    /\ op = "create_stat_comparison_chart" /\ pc = "done" /\ args.ctx
    /\ Truthy(args.players) /\ Len(args.players.v) = 5
    /\ ValidationErrorOnly

\* five metrics were asked for and four are in the chart
C26_WitnessMetrics ==
    /\ op = "create_stat_comparison_chart" /\ pc = "done" /\ made.built
    /\ Len(RequestedMetrics) = 5 /\ Len(UsedMetrics) = 4

\* the tables held one of the two players
C26_WitnessInsufficient ==
    /\ op = "create_stat_comparison_chart" /\ pc = "done"
    /\ Len(ext) = 2 /\ ~ext[1].empty /\ ~ext[2].empty
    /\ InsufficientStats

\* the lines of the response that are rows of its table, after the header and the rule
TableRowLines(response) ==
    LET lines == LinesOf(response)
        at == {n \in 1..Len(lines) : lines[n] # <<>> /\ lines[n][1] = "|"}
        rows == LinesAt(lines, at)
    IN  [k \in 1..(Len(rows) - 2) |-> rows[k + 2].v]

\* the row of the table df as the response writes it
RowLine(df, k) ==
    <<"|">> \o Concat([c \in 1..Len(df.columns) |->
                          <<" ">> \o PyToStr(df.rows[k][df.columns[c]]) \o <<" ", "|">>])

LimitNote(limit) == <<"Results limited to ">> \o IntToStr(limit) \o <<" entries">>

\* C27: lookup_player_id answers a limit below 1 or above 50 with a validation
\* error string and makes no external call; with a limit of 1..50 the table of
\* the response holds the first limit rows of the upstream table, in its order,
\* and all of them when there are no more than limit; the note 'Results limited
\* to <limit> entries' is in the response exactly when the upstream table has
\* more than limit rows.
C27_LookupLimit ==
    (op = "lookup_player_id" /\ pc \in {"done", "processed"} /\ args.ctx /\ args.limit.t = "int") =>
        /\ args.limit.v \notin 1..50 =>
              /\ ext = <<>>
              /\ ret.ok /\ ret.v.t = "str"
              /\ StartsWith(ret.v.v, CrossMark \o <<" ", "Validation Error", ":", " ">>)
        /\ (ext # <<>> /\ ~ext[1].raised) =>
              LET df == ext[1].table
                  limit == args.limit.v
                  shown == IF Len(df.rows) > limit THEN limit ELSE Len(df.rows)
              IN  /\ limit \in 1..50
                  /\ Len(ext) = 1
                  /\ ~IsEmpty(df) =>
                        /\ Len(TableRowLines(ret.v.v)) <= limit
                        /\ TableRowLines(ret.v.v) = [k \in 1..shown |-> RowLine(df, k)]
                  /\ Contains(ret.v.v, LimitNote(limit)) <=> Len(df.rows) > limit

\* three rows upstream and a limit of 2: two rows and the note
C27_Witness ==
    /\ op = "lookup_player_id" /\ pc = "done" /\ args.limit = PyInt(2)
    /\ ext # <<>> /\ Len(ext[1].table.rows) = 3
    /\ Len(TableRowLines(ret.v.v)) = 2
    /\ Contains(ret.v.v, LimitNote(2))

\* two rows upstream and a limit of 2: no note
C27_WitnessAtLimit ==
    /\ op = "lookup_player_id" /\ pc = "done" /\ args.limit = PyInt(2)
    /\ ext # <<>> /\ Len(ext[1].table.rows) = 2
    /\ Len(TableRowLines(ret.v.v)) = 2
    /\ ~Contains(ret.v.v, LimitNote(2))

\* a limit of 51
C27_WitnessRejected ==
    /\ op = "lookup_player_id" /\ pc = "done" /\ args.limit = PyInt(51)
    /\ ext = <<>> /\ caught # NoExc /\ caught.exc = "ValidationError"

C28_WitnessRaised ==
    /\ op = "create_chart_artifact" /\ pc = "done" /\ earlier.called
    /\ ~ret.ok /\ ~earlier.ret.ok

\* the compact artifact of the chart has the placeholder and no metric card
NoSummaryData ==
    /\ extract_summary_metrics(made.chart_data).v = <<>>
    /\ \A i \in 1..Len(made.chart_data.insights.v) :
          LineEntries(made.chart_data.insights.v)[i] = <<>>
    /\ Contains(made.artifact.content, <<"No summary data available">>)
    /\ ~Contains(made.artifact.content, <<"metric-label">>)

\* C29: a comparison chart whose metric names hold neither '%' nor 'Total Hits'
\* has no insight line that gives a summary metric, and its compact artifact
\* holds the placeholder 'No summary data available'.
C29_ComparisonSummaryEmpty ==
    (op = "create_stat_comparison_chart" /\ pc \in {"done", "processed"} /\ made.built
     /\ \A k \in 1..Len(UsedMetrics) :
           /\ "%" \notin Range(ColumnText(UsedMetrics[k]))
           /\ ~Contains(ColumnText(UsedMetrics[k]), <<"Total", " ", "Hits">>))
        => NoSummaryData

\* the same for the default metrics of batting and of pitching
C29_DefaultMetrics ==
    (op = "create_stat_comparison_chart" /\ pc \in {"done", "processed"} /\ made.built
     /\ args.metrics = PyNone)
        => NoSummaryData

\* the line of the metrics analyzed gives the card Avg Exit Velocity
C29_AverageCard ==
    /\ op = "create_stat_comparison_chart" /\ pc = "done" /\ made.built
    /\ args.metrics = PyList(<<"Average: mph">>)
    /\ extract_summary_metrics(made.chart_data).v =
          << [label |-> <<"Avg Exit Velocity">>, value |-> <<"mph">>] >>
    /\ Contains(made.artifact.content, <<"metric-label">>)

\* the year a normalized date is written with
YearOfText(date) == DigitsToNat(SplitOn(date, "-")[1])

\* what validate_date_range makes of the arguments of the call
RangeOfCall == validate_date_range(args.start_dt, args.end_dt, args.libc)

\* C30: validate_statcast_params raises ValidationError exactly when
\* validate_date_range raises for the pair or the year of the normalized start
\* date is before 2015; when validate_date_range raises, its error is the one
\* reported; otherwise the pair validate_date_range returns is returned.
C30_StatcastParams ==
    (op = "validate_statcast_params" /\ pc = "done") =>
        /\ (~ret.ok /\ ret.exc = "ValidationError")
              <=> (~RangeOfCall.ok \/ YearOfText(RangeOfCall.v.v[1].v) < 2015)
        /\ ~RangeOfCall.ok => ret = RangeOfCall
        /\ ret.ok => ret = RangeOfCall

\* the same without the class of the exception: the call raises exactly when
\* validate_date_range raises, and then what that raised, or the start is before 2015
C30_RaisesWithDateRange ==
    (op = "validate_statcast_params" /\ pc = "done") =>
        /\ ~ret.ok <=> (~RangeOfCall.ok \/ YearOfText(RangeOfCall.v.v[1].v) < 2015)
        /\ ~RangeOfCall.ok => ret = RangeOfCall
        /\ (RangeOfCall.ok /\ ~ret.ok) =>
              ret = Raise("ValidationError", <<"Statcast data is only available from 2015 onwards">>)
        /\ ret.ok => ret = RangeOfCall

\* a start date of the year 999 on glibc: the exception is a ValueError
C30_EarlyYearOnGlibc ==
    /\ op = "validate_statcast_params" /\ pc = "done"
    /\ args.start_dt = PyStr(<<"0", "9", "9", "9", "-", "0", "1", "-", "0", "1">>)
    /\ args.libc = "glibc"
    /\ ~ret.ok /\ ret.exc = "ValueError"

\* a pair in the wrong order and before 2015 reports the order
C30_OrderReported ==
    /\ op = "validate_statcast_params" /\ pc = "done"
    /\ args.start_dt = PyStr(<<"1", "9", "0", "2", "-", "0", "1", "-", "0", "1">>)
    /\ args.end_dt = PyStr(<<"1", "8", "9", "7", "-", "0", "1", "-", "0", "1">>)
    /\ ret = Raise("ValidationError", <<"Start date must be before end date">>)

====
